---- MODULE Spec2Model ----
(***************************************************************************)
(* Model of the self-healing operations pipeline of loganalyticsagent:     *)
(*   monitor.py   (MonitorAgent: telemetry polls, dedup, error logs)       *)
(*   agent.py     (ErrorAnalyzerAgent: extraction, manifest patch,         *)
(*                 classification, log cursors, fix_queue.json hand-off)   *)
(*   fixer.py     (FixerAgent: execute_fix, verify_fix, receive_error)     *)
(*   supervisor.py, main.py (the coordination loop, its start and stop)    *)
(* Strings that the code parses or formats are sequences of one-character  *)
(* strings, so that parsing and formatting are computed, not assumed.      *)
(***************************************************************************)
EXTENDS Integers, Sequences, FiniteSets, TLC

(***************************************************************************)
(* Bounds of the model.                                                    *)
(***************************************************************************)
\* quantities 0..MaxQty are tried as "<n>m", "<n>Mi", "<n>Gi" and "<n>"
MaxQty == 12

(***************************************************************************)
(* Python values.                                                          *)
(***************************************************************************)
\* Python's None (also: a key that a dict does not hold, as dict.get gives it)
None == "<None>"

\* a dict key that is not there, where the value would be a string of characters
Absent == <<"<absent>">>

(***************************************************************************)
(* Strings as sequences of characters.                                     *)
(***************************************************************************)
Digits == <<"0", "1", "2", "3", "4", "5", "6", "7", "8", "9">>

IsDigit(c) == \E d \in 1..10 : Digits[d] = c

DigitVal(c) == (CHOOSE d \in 1..10 : Digits[d] = c) - 1

\* Python: sub in s
Contains(s, sub) ==
    \E i \in 1..(Len(s) - Len(sub) + 1) : SubSeq(s, i, i + Len(sub) - 1) = sub

\* Python: s.replace(sub, ''), left to right, occurrences not overlapping
RECURSIVE RemoveAll(_, _)
RemoveAll(s, sub) ==
    IF Len(s) < Len(sub) THEN s
    ELSE IF SubSeq(s, 1, Len(sub)) = sub
         THEN RemoveAll(SubSeq(s, Len(sub) + 1, Len(s)), sub)
         ELSE <<s[1]>> \o RemoveAll(Tail(s), sub)

RECURSIVE DigitsValue(_)
DigitsValue(s) ==
    IF s = <<>> THEN 0
    ELSE 10 * DigitsValue(SubSeq(s, 1, Len(s) - 1)) + DigitVal(s[Len(s)])

\* the outcome of a conversion: a value, or a raised ValueError
Value(v) == [ok |-> TRUE, val |-> v]

ValueError == [ok |-> FALSE, val |-> 0]

\* Python: int(s) for a string of the model's alphabet (digits, letters, '.')
ParseInt(s) ==
    IF Len(s) > 0 /\ \A i \in 1..Len(s) : IsDigit(s[i])
    THEN Value(DigitsValue(s))
    ELSE ValueError

\* Python: f"{n}" for an int n >= 0
RECURSIVE IntToStr(_)
IntToStr(n) ==
    IF n < 10 THEN <<Digits[n + 1]>>
    ELSE IntToStr(n \div 10) \o <<Digits[(n % 10) + 1]>>

\* Python: float(s) for a string of the model's alphabet with at most one
\* digit after the point; the value is kept as a number of tenths
ParseFloat(s) ==
    LET dots == {i \in 1..Len(s) : s[i] = "."}
    IN  IF dots = {}
        THEN IF ParseInt(s).ok THEN Value(10 * ParseInt(s).val) ELSE ValueError
        ELSE IF Cardinality(dots) > 1 THEN ValueError
        ELSE LET p    == CHOOSE i \in dots : TRUE
                 ip   == SubSeq(s, 1, p - 1)
                 fp   == SubSeq(s, p + 1, Len(s))
             IN  IF Len(ip) + Len(fp) = 0 \/ Len(fp) > 1 THEN ValueError
                 ELSE IF \E i \in 1..Len(ip) : ~IsDigit(ip[i]) THEN ValueError
                 ELSE IF \E i \in 1..Len(fp) : ~IsDigit(fp[i]) THEN ValueError
                 ELSE Value(10 * DigitsValue(ip) + DigitsValue(fp))

\* Python: f"{x}" for a float x >= 0 given in tenths: repr always shows the
\* point ("2.0", "1.5")
FloatToStr(tenths) ==
    IntToStr(tenths \div 10) \o <<".">> \o <<Digits[(tenths % 10) + 1]>>

(***************************************************************************)
(* Orchestrator incidents: messages, pod manifests, kubectl.               *)
(***************************************************************************)
PodNames == {"p1", "p2"}

Namespaces == {"ns1"}

ContainerNames == {"c1", "c2"}

\* A message. contains: the marker substrings found in its text (those the
\* monitor tests with "in"). kind: how _extract_pod_info reads the text:
\*   "text":    the human-readable pattern matches, with its three groups
\*   "json":    no pattern match; the whole text is a JSON object with
\*              objectRef.namespace, objectRef.name (None: key not there) and
\*              the entries of requestObject.status.containerStatuses, each
\*              with its name and its lastState.terminated.reason
\*   "wrapped": as "json", but text surrounds the object: the extractor finds
\*              it between the first '{' and the last '}', json.loads of the
\*              whole text fails
\*   "badjson": no pattern match; braces found, json.loads fails
\*   "plain":   no pattern match and no braces
Message(kind, container, namespace, pod, statuses, contains) ==
    [kind |-> kind, container |-> container, namespace |-> namespace,
     pod |-> pod, statuses |-> statuses, contains |-> contains]

TextMessage(container, namespace, pod) ==
    Message("text", container, namespace, pod, <<>>, {})

JsonMessage(namespace, pod, statuses) ==
    Message("json", None, namespace, pod, statuses, {"OOMKilled"})

WrappedJsonMessage(namespace, pod, statuses) ==
    Message("wrapped", None, namespace, pod, statuses, {"OOMKilled"})

BadJsonMessage == Message("badjson", None, None, None, <<>>, {"OOMKilled"})

PlainMessage == Message("plain", None, None, None, <<>>, {"OOMKilled"})

\* the object that the extractor's json.loads gives can be read
HasJson(msg) == msg.kind \in {"json", "wrapped"}

\* Python truthiness of a string or None
Truthy(x) == x # None /\ x # ""

NoPodInfo == [pod |-> None, namespace |-> None, container |-> None]

\* the first entry of the status list terminated with reason OOMKilled (0: none)
FirstOOMKilled(statuses) ==
    IF \E i \in 1..Len(statuses) : statuses[i].reason = "OOMKilled"
    THEN CHOOSE i \in 1..Len(statuses) :
            /\ statuses[i].reason = "OOMKilled"
            /\ \A j \in 1..(i - 1) : statuses[j].reason # "OOMKilled"
    ELSE 0

\* the extractor taking the last OOMKilled entry of the list, not the first
ExtractPodInfoLastEntry(msg) ==
    LET last == CHOOSE i \in 1..Len(msg.statuses) :
                    /\ msg.statuses[i].reason = "OOMKilled"
                    /\ \A j \in (i + 1)..Len(msg.statuses) :
                          msg.statuses[j].reason # "OOMKilled"
    IN  IF msg.kind = "text"
        THEN [pod |-> msg.pod, namespace |-> msg.namespace, container |-> msg.container]
        ELSE IF HasJson(msg) /\ FirstOOMKilled(msg.statuses) # 0
             THEN [pod |-> msg.pod, namespace |-> msg.namespace,
                   container |-> msg.statuses[last].name]
             ELSE NoPodInfo

\* ErrorAnalyzerAgent._extract_pod_info
ExtractPodInfo(msg) ==
    IF msg.kind = "text"
    THEN [pod |-> msg.pod, namespace |-> msg.namespace, container |-> msg.container]
    ELSE IF HasJson(msg) /\ FirstOOMKilled(msg.statuses) # 0
         THEN [pod |-> msg.pod, namespace |-> msg.namespace,
               container |-> msg.statuses[FirstOOMKilled(msg.statuses)].name]
         ELSE NoPodInfo

\* One container of a pod manifest; a resource quantity is a string, or Absent
Container(name, image, cl, ml, cr, mr) ==
    [name |-> name, image |-> image, cpu_limit |-> cl, memory_limit |-> ml,
     cpu_request |-> cr, memory_request |-> mr]

\* the metadata keys the server manages, and the ones the user gave
ServerMetadata == {"creationTimestamp", "resourceVersion", "uid", "generation"}

UserMetadata == {"name", "namespace"}

\* a pod manifest: spec.containers, whether the status key is there, and the
\* metadata keys that are there
Manifest(containers, status, metadata) ==
    [containers |-> containers, status |-> status, metadata |-> metadata]

NoManifest == Manifest(<<>>, FALSE, {})

\* the defaults of limits.get / requests.get
DefaultCpuLimit == <<"5", "0", "0", "m">>

DefaultMemoryLimit == <<"5", "1", "2", "M", "i">>

GetOr(v, default) == IF v = Absent THEN default ELSE v

\* the outcome of rewriting one resource: ok = FALSE when the code raised
Patched(limit, request) == [ok |-> TRUE, limit |-> limit, request |-> request]

PatchRaised == [ok |-> FALSE, limit |-> Absent, request |-> Absent]

\* the CPU patch with the request set to the new limit, not to half of it
PatchCpuRequestNotHalved(cpu_limit) ==
    IF Contains(cpu_limit, <<"m">>)
    THEN LET n == ParseInt(RemoveAll(cpu_limit, <<"m">>))
             cpu_val == n.val * 2
         IN  IF n.ok
             THEN Patched(IntToStr(cpu_val) \o <<"m">>, IntToStr(cpu_val) \o <<"m">>)
             ELSE PatchRaised
    ELSE LET x == ParseFloat(cpu_limit)
             cpu_val == x.val * 2
         IN  IF x.ok
             THEN Patched(FloatToStr(cpu_val), FloatToStr(cpu_val))
             ELSE PatchRaised

\* agent.py:111-118: the CPU limit doubled, the request half of the new limit
PatchCpu(cpu_limit) ==
    IF Contains(cpu_limit, <<"m">>)
    THEN LET n == ParseInt(RemoveAll(cpu_limit, <<"m">>))
             cpu_val == n.val * 2
         IN  IF n.ok
             THEN Patched(IntToStr(cpu_val) \o <<"m">>,
                          IntToStr(cpu_val \div 2) \o <<"m">>)
             ELSE PatchRaised
    ELSE LET x == ParseFloat(cpu_limit)
             cpu_val == x.val * 2
         IN  IF x.ok
             THEN Patched(FloatToStr(cpu_val), FloatToStr(cpu_val \div 2))
             ELSE PatchRaised

\* agent.py:120-127: the memory limit doubled, the request half of the new
\* limit; a limit with neither Mi nor Gi leaves limit and request as they are
PatchMemory(memory_limit, memory_request) ==
    IF Contains(memory_limit, <<"M", "i">>)
    THEN LET n == ParseInt(RemoveAll(memory_limit, <<"M", "i">>))
             mem_val == n.val * 2
         IN  IF n.ok
             THEN Patched(IntToStr(mem_val) \o <<"M", "i">>,
                          IntToStr(mem_val \div 2) \o <<"M", "i">>)
             ELSE PatchRaised
    ELSE IF Contains(memory_limit, <<"G", "i">>)
    THEN LET x == ParseFloat(RemoveAll(memory_limit, <<"G", "i">>))
             mem_val == x.val * 2
         IN  IF x.ok
             THEN Patched(FloatToStr(mem_val) \o <<"G", "i">>,
                          FloatToStr(mem_val \div 2) \o <<"G", "i">>)
             ELSE PatchRaised
    ELSE Patched(memory_limit, memory_request)

\* agent.py:100-128: the resources of one container rewritten
PatchContainer(c) ==
    LET cpu == PatchCpu(GetOr(c.cpu_limit, DefaultCpuLimit))
        mem == PatchMemory(GetOr(c.memory_limit, DefaultMemoryLimit),
                           c.memory_request)
    IN  [ok |-> cpu.ok /\ mem.ok,
         container |-> [c EXCEPT !.cpu_limit = cpu.limit,
                                 !.cpu_request = cpu.request,
                                 !.memory_limit = mem.limit,
                                 !.memory_request = mem.request]]

\* the first container of the list with the given name (0: none)
FindContainer(containers, container_name) ==
    IF \E i \in 1..Len(containers) : containers[i].name = container_name
    THEN CHOOSE i \in 1..Len(containers) :
            /\ containers[i].name = container_name
            /\ \A j \in 1..(i - 1) : containers[j].name # container_name
    ELSE 0

\* a remediation step: a kubectl command that _modify_pod_manifest builds, or
\* a string the analysis service gave (op "text", the string cut in pieces)
Step(op, pod, namespace, file, text) ==
    [op |-> op, pod |-> pod, namespace |-> namespace, file |-> file, text |-> text]

\* f"{temp_manifest_dir}/{namespace}_{pod_name}.yaml"
ManifestFile(namespace, pod_name) == <<namespace, pod_name>>

NoFile == <<None, None>>

\* f"kubectl delete pod {pod_name} -n {namespace}"
DeleteCmd(pod_name, namespace) == Step("delete", pod_name, namespace, NoFile, <<>>)

\* f"kubectl apply -f {manifest_file}"
ApplyCmd(manifest_file) == Step("apply", None, None, manifest_file, <<>>)

\* what kubectl and the file system do in one call of _modify_pod_manifest:
\* the return code and the output of kubectl get, and whether the manifest
\* file can be written
KubectlEnv(rc, manifest, write_ok) ==
    [rc |-> rc, manifest |-> manifest, write_ok |-> write_ok]

\* the result of _modify_pod_manifest, with the manifest written to the file
ModifyResult(manifest_file, commands, saved, manifest) ==
    [manifest_file |-> manifest_file, commands |-> commands,
     saved |-> saved, manifest |-> manifest]

ModifyFailed == ModifyResult(NoFile, <<>>, FALSE, NoManifest)

\* _modify_pod_manifest returning the delete command although the manifest
\* file could not be written
ModifyPodManifestDeleteOnly(pod_name, namespace, container_name, env) ==
    LET manifest == env.manifest
        i == FindContainer(manifest.containers, container_name)
        patch == PatchContainer(manifest.containers[i])
        cleaned == Manifest([manifest.containers EXCEPT ![i] = patch.container],
                            FALSE,
                            manifest.metadata \ ServerMetadata)
        manifest_file == ManifestFile(namespace, pod_name)
    IN  IF env.rc # 0 THEN ModifyFailed
        ELSE IF manifest.containers = <<>> THEN ModifyFailed
        ELSE IF i = 0 THEN ModifyFailed
        ELSE IF ~patch.ok THEN ModifyFailed
        ELSE IF ~env.write_ok
        THEN ModifyResult(NoFile, <<DeleteCmd(pod_name, namespace)>>, FALSE, NoManifest)
        ELSE ModifyResult(manifest_file,
                          <<DeleteCmd(pod_name, namespace), ApplyCmd(manifest_file)>>,
                          TRUE, cleaned)

\* _modify_pod_manifest with the metadata written back as it was fetched
ModifyPodManifestMetadataKept(pod_name, namespace, container_name, env) ==
    LET manifest == env.manifest
        i == FindContainer(manifest.containers, container_name)
        patch == PatchContainer(manifest.containers[i])
        cleaned == Manifest([manifest.containers EXCEPT ![i] = patch.container],
                            FALSE,
                            manifest.metadata)
        manifest_file == ManifestFile(namespace, pod_name)
    IN  IF env.rc # 0 THEN ModifyFailed
        ELSE IF manifest.containers = <<>> THEN ModifyFailed
        ELSE IF i = 0 THEN ModifyFailed
        ELSE IF ~patch.ok THEN ModifyFailed
        ELSE IF ~env.write_ok THEN ModifyFailed
        ELSE ModifyResult(manifest_file,
                          <<DeleteCmd(pod_name, namespace), ApplyCmd(manifest_file)>>,
                          TRUE, cleaned)

\* ErrorAnalyzerAgent._modify_pod_manifest
ModifyPodManifest(pod_name, namespace, container_name, env) ==
    LET manifest == env.manifest
        i == FindContainer(manifest.containers, container_name)
        patch == PatchContainer(manifest.containers[i])
        cleaned == Manifest([manifest.containers EXCEPT ![i] = patch.container],
                            FALSE,
                            manifest.metadata \ ServerMetadata)
        manifest_file == ManifestFile(namespace, pod_name)
    IN  IF env.rc # 0 THEN ModifyFailed
        ELSE IF manifest.containers = <<>> THEN ModifyFailed
        ELSE IF i = 0 THEN ModifyFailed
        ELSE IF ~patch.ok THEN ModifyFailed
        ELSE IF ~env.write_ok THEN ModifyFailed
        ELSE ModifyResult(manifest_file,
                          <<DeleteCmd(pod_name, namespace), ApplyCmd(manifest_file)>>,
                          TRUE, cleaned)

(***************************************************************************)
(* The classifier: ErrorAnalyzerAgent.analyze_error.                       *)
(***************************************************************************)
\* A reply of the analysis service, as analyze_error reads it:
\*   kind "fenced":     a ```json fenced block whose braces parse as an object
\*   kind "fenced_bad": a fenced block whose braces do not parse
\*   kind "object":     no fenced block; the whole reply parses as an object
\*   kind "nonobject":  no fenced block; the reply parses as JSON that is no
\*                      object (a list, a string, a number)
\*   kind "garbage":    no fenced block; the reply does not parse (also: empty)
\*   kind "api_error":  the call raised
\* raw is the reply's text; root_cause and steps are the keys of the parsed
\* object (Absent, <<>>: key not there)
Reply(kind, raw, root_cause, steps) ==
    [kind |-> kind, raw |-> raw, root_cause |-> root_cause, steps |-> steps]

TextStep(text) == Step("text", None, None, NoFile, text)

\* What analyze_error returns: a dict (dict = TRUE) with root_cause,
\* remediation_steps and, for a patched pod, manifest_file; or the non-dict
\* value that json.loads gave
Analysis(root_cause, remediation_steps, manifest_file) ==
    [dict |-> TRUE, root_cause |-> root_cause,
     remediation_steps |-> remediation_steps, manifest_file |-> manifest_file]

NonDictAnalysis == [Analysis(Absent, <<>>, NoFile) EXCEPT !.dict = FALSE]

\* agent.py:165-193: the snowflake branch, given the service's reply
AnalyzeSnowflake(reply) ==
    CASE reply.kind \in {"fenced", "object"} ->
            Analysis(reply.root_cause, reply.steps, NoFile)
      [] reply.kind = "nonobject" -> NonDictAnalysis
      [] reply.kind \in {"fenced_bad", "garbage"} ->
            Analysis(<<"Failed to parse JSON from LLM">>, <<TextStep(<<reply.raw>>)>>, NoFile)
      [] OTHER ->
            Analysis(<<"Failed to analyze">>, <<TextStep(<<"Error: ", reply.raw>>)>>, NoFile)

\* agent.py:194-213: the kubernetes branch, given what kubectl does
AnalyzeKubernetes(error_message, env) ==
    LET info == ExtractPodInfo(error_message)
        mod == ModifyPodManifest(info.pod, info.namespace, info.container, env)
    IN  IF ~Truthy(info.pod) \/ ~Truthy(info.namespace) \/ ~Truthy(info.container)
        THEN Analysis(<<"Failed to extract pod information">>, <<>>, NoFile)
        ELSE IF mod.commands = <<>>
        THEN Analysis(<<"Failed to modify pod manifest">>, <<>>, NoFile)
        ELSE Analysis(<<"OOMKilled error in pod", info.pod, "in namespace", info.namespace>>,
                      mod.commands, mod.manifest_file)

\* ErrorAnalyzerAgent.analyze_error
AnalyzeError(error_message, source, snowflake_conn, reply, env) ==
    IF source = "snowflake" /\ snowflake_conn THEN AnalyzeSnowflake(reply)
    ELSE IF source = "kubernetes" THEN AnalyzeKubernetes(error_message, env)
    ELSE Analysis(<<"Cannot analyze", source, "error: No Snowflake connection">>,
                  <<>>, NoFile)

\* the manifest file analyze_error leaves behind (saved = FALSE: none)
SavedManifest(error_message, source, env) ==
    LET info == ExtractPodInfo(error_message)
        mod == ModifyPodManifest(info.pod, info.namespace, info.container, env)
    IN  IF source = "kubernetes" /\ Truthy(info.pod) /\ Truthy(info.namespace)
           /\ Truthy(info.container)
        THEN mod
        ELSE ModifyFailed

(***************************************************************************)
(* Inputs of one analysis of an orchestrator incident.                     *)
(***************************************************************************)
\* sequences over S of length at most n
SeqsUpTo(S, n) == UNION {[1..k -> S] : k \in 0..n}

\* the numbers tried as quantities: small ones and the documented examples
QtyNumbers == (0..MaxQty) \cup {250, 500, 512}

MilliCpu(n) == IntToStr(n) \o <<"m">>

MiMemory(k) == IntToStr(k) \o <<"M", "i">>

GiMemory(k) == IntToStr(k) \o <<"G", "i">>

CpuInputs ==
    {MilliCpu(n) : n \in QtyNumbers}
    \cup {<<"2">>, <<"1", ".", "5">>, <<"0", ".", "5">>, <<"x", "m">>, <<"x">>, Absent}

MemoryInputs ==
    {MiMemory(k) : k \in QtyNumbers} \cup {GiMemory(k) : k \in QtyNumbers}
    \cup {<<"1", ".", "5", "G", "i">>, <<"5", "1", "2", "M">>, <<"x", "M", "i">>,
          <<"x", "G", "i">>, Absent}

StatusEntries ==
    [name : ContainerNames \cup {None}, reason : {"OOMKilled", "Error", None}]

MaxStatuses == 2

MessageInputs ==
    {TextMessage(c, ns, p) : c \in ContainerNames, ns \in Namespaces, p \in PodNames}
    \cup {JsonMessage(ns, p, st) : ns \in Namespaces \cup {None},
                                   p \in PodNames \cup {None},
                                   st \in SeqsUpTo(StatusEntries, MaxStatuses)}
    \cup {WrappedJsonMessage(ns, "p1", st) : ns \in Namespaces \cup {None},
                                   st \in SeqsUpTo(StatusEntries, 1)}
    \cup {BadJsonMessage, PlainMessage}

OtherContainer == Container("c2", "img2", <<"1", "0", "0", "m">>, <<"6", "4", "M", "i">>,
                            <<"5", "0", "m">>, <<"3", "2", "M", "i">>)

\* manifests whose container c1 has the given limits
ManifestsWith(cl, ml) ==
    LET target == Container("c1", "img1", cl, ml, Absent, Absent)
    IN  {Manifest(cs, st, UserMetadata \cup md) :
            cs \in {<<target>>, <<OtherContainer, target>>},
            st \in BOOLEAN,
            md \in {{}, ServerMetadata}}

StandardManifest ==
    Manifest(<<Container("c1", "img1", DefaultCpuLimit, DefaultMemoryLimit, Absent, Absent)>>,
             TRUE, UserMetadata \cup ServerMetadata)

\* kubectl outcomes apart from the quantities: get fails, no containers,
\* the file cannot be written, all fine
BasicEnvs ==
    {KubectlEnv(1, NoManifest, TRUE),
     KubectlEnv(0, Manifest(<<>>, TRUE, UserMetadata), TRUE),
     KubectlEnv(0, Manifest(<<OtherContainer>>, TRUE, UserMetadata), TRUE),
     KubectlEnv(0, StandardManifest, FALSE),
     KubectlEnv(0, StandardManifest, TRUE)}

QuantityEnvs ==
    {KubectlEnv(0, m, TRUE) : m \in UNION {ManifestsWith(cl, ml) :
                                             cl \in CpuInputs, ml \in MemoryInputs}}

StandardMessage == TextMessage("c1", "ns1", "p1")

NoAnalysis == Analysis(<<"<no analysis>">>, <<>>, NoFile)

(***************************************************************************)
(* The text of a reply and what analyze_error parses of it.                *)
(***************************************************************************)
\* The text of a reply as a sequence of tokens separated by whitespace:
\*   "prose":   words, without a fence and without a brace at either end
\*   "fence_json": three backquotes and the tag json
\*   "fence":   three backquotes
\*   "object":  the text of JSON object number n, brace to brace
\*   "braces":  text from an opening to a closing brace that is no JSON
\*   "array":   the text of a JSON array
Token(t, n) == [t |-> t, n |-> n]

\* JSON objects in a reply
MaxObjects == 2

\* tokens in a reply
MaxTokens == 4

Tokens ==
    {Token(t, 0) : t \in {"prose", "fence_json", "fence", "braces", "array"}}
    \cup {Token("object", n) : n \in 1..MaxObjects}

ReplyTexts == SeqsUpTo(Tokens, MaxTokens)

\* text from an opening brace to a closing brace
Braced(token) == token.t \in {"object", "braces"}

\* the three backquotes at the end of the pattern also match the start of a
\* fence with the json tag
StartsFence(token) == token.t \in {"fence", "fence_json"}

\* result of re.search: found, and the tokens of group(1)
Match(found, group) == [found |-> found, group |-> group]

\* a search that never finds a block
SearchNothing(text) == Match(FALSE, <<>>)

\* agent.py:177: re.search with the pattern fence_json, whitespace, group
\* (brace, anything (lazy), brace), whitespace, fence, and re.DOTALL: the
\* leftmost fence_json that is followed by an opening brace and has, further
\* on, a closing brace followed by a fence; the group ends at the first such
\* closing brace
Search(text) ==
    LET ends(i) == {j \in (i + 1)..(Len(text) - 1) :
                       Braced(text[j]) /\ StartsFence(text[j + 1])}
        starts == {i \in 1..(Len(text) - 1) :
                      /\ text[i].t = "fence_json"
                      /\ Braced(text[i + 1])
                      /\ ends(i) # {}}
        first(S) == CHOOSE i \in S : \A k \in S : i <= k
    IN  IF starts = {} THEN Match(FALSE, <<>>)
        ELSE Match(TRUE, SubSeq(text, first(starts) + 1, first(ends(first(starts)))))

\* json.loads: the value of a text that is one JSON value, an error otherwise
\* (the empty text, prose, a fence, several values)
JsonLoads(text) ==
    IF Len(text) = 1 /\ text[1].t \in {"object", "array"} THEN text[1]
    ELSE Token("error", 0)

\* the keys of JSON object n
ObjectRootCause(n) == <<"root cause", n>>

ObjectSteps(n) == <<TextStep(<<"sql", n>>)>>

\* the reply that analyze_error has in hand when json.loads gave value, for a
\* json_str that was the group of a match (found) or the whole text
ReplyFor(value, found, text) ==
    IF value.t = "object"
    THEN Reply(IF found THEN "fenced" ELSE "object", text,
               ObjectRootCause(value.n), ObjectSteps(value.n))
    ELSE IF value.t = "array" THEN Reply("nonobject", text, Absent, <<>>)
    ELSE Reply(IF found THEN "fenced_bad" ELSE "garbage", text, Absent, <<>>)

\* agent.py:177-184: the match tried first, the whole reply parsed when there
\* is none
ReplyOf(text) ==
    LET match == Search(text)
        json_str == IF match.found THEN match.group ELSE text
    IN  ReplyFor(JsonLoads(json_str), match.found, text)

(***************************************************************************)
(* The monitor: telemetry events, dedup, the error logs.                   *)
(***************************************************************************)
MaxEventId == 3

\* events per filter_log_events response
MaxBatch == 2

EventIds == 1..MaxEventId

Sources == {"snowflake", "kubernetes"}

\* a telemetry event: event["eventId"], event["message"]
Event(id, msg) == [id |-> id, msg |-> msg]

\* snowflake telemetry messages, by the marker substrings they contain
SnowflakeMessage(contains) == Message("plain", None, None, None, <<>>, contains)

\* the telemetry source holds one event per id; its message goes by the id:
\* an error, a successful statement, an error, a statement without an error
\* code, ...
SnowflakeMessageOf(id) ==
    CASE id % 4 = 1 -> SnowflakeMessage({})
      [] id % 4 = 2 ->
            SnowflakeMessage({"EXECUTION_STATUS: SUCCESS", "ERROR_CODE: None",
                              "ERROR_MESSAGE: None"})
      [] id % 4 = 3 -> SnowflakeMessage({"ERROR_CODE: None"})
      [] OTHER -> SnowflakeMessage({"ERROR_CODE: None", "ERROR_MESSAGE: None"})

\* monitor.py:73-75
IsSnowflakeError(msg) ==
    /\ "EXECUTION_STATUS: SUCCESS" \notin msg.contains
    /\ \/ "ERROR_CODE: None" \notin msg.contains
       \/ "ERROR_MESSAGE: None" \notin msg.contains

\* kubernetes telemetry messages (the filter pattern lets only messages with
\* OOMKilled through): an audit event of a pod with an OOMKilled container, one
\* whose container ended otherwise, the audit event of a failed kubectl
\* apply, and a message that is no JSON
OOMStatus(name) == [name |-> name, reason |-> "OOMKilled"]

AuditEvent(namespace, pod, statuses, more) ==
    Message("json", None, namespace, pod, statuses, {"OOMKilled", "audit.k8s.io/v1"} \cup more)

\* the kubernetes event of an id: an OOMKilled pod, a message that is no JSON,
\* a pod whose container ended otherwise, the audit event of a failed apply
KubernetesMessageOf(id) ==
    CASE id % 4 = 1 -> AuditEvent("ns1", "p1", <<OOMStatus("c1")>>, {})
      [] id % 4 = 2 -> PlainMessage
      [] id % 4 = 3 -> AuditEvent("ns1", "p1", <<[name |-> "c1", reason |-> "Error"]>>, {})
      [] OTHER -> AuditEvent("ns1", "p1", <<OOMStatus("c1")>>, {"Forbidden"})

SnowflakeEvents == {Event(i, SnowflakeMessageOf(i)) : i \in EventIds}

KubernetesEvents == {Event(i, KubernetesMessageOf(i)) : i \in EventIds}

\* monitor.py:153: f"Kubernetes Error in {log_group}:\n{msg}\n": the message
\* with text around it (a JSON object is no longer the whole text)
RawKubernetesError(msg) == [msg EXCEPT !.kind = IF @ = "json" THEN "wrapped" ELSE @]

\* a piece of an error log: a message, or the delimiter line ('-' * 60);
\* event is the id of the telemetry event the piece was written for
LogMessage(msg, event) == [delim |-> FALSE, msg |-> msg, event |-> event]

LogDelimiter(event) == [delim |-> TRUE, msg |-> PlainMessage, event |-> event]

\* f.write(error_message + '-' * 60 + "\n")
LogRecord(msg, event) == <<LogMessage(msg, event), LogDelimiter(event)>>

\* f"{namespace}/{pod_name}"
PodKey(namespace, pod_name) == <<namespace, pod_name>>

PodKeys == {PodKey(ns, p) : ns \in Namespaces, p \in PodNames}

\* monitor.py:132: a pod is skipped for this many seconds after an incident
RecentPodSeconds == 60

\* no entry of recent_pods for a pod
NoTime == -1

\* The state a scan of one response works on: seen_event_ids, recent_pods, the
\* log of the source, and the counts kept for the record: per event id how
\* often it passed the dedup check (delivered), how often a record was written
\* for it (logged) and how often the monitor called analyze_error for it
\* (calls); skipped: the id that came again and was skipped last (0: none); aborted:
\* an exception ended the scan
ScanState(seen, recent, log, delivered, logged, calls, skipped) ==
    [seen |-> seen, recent |-> recent, log |-> log, delivered |-> delivered,
     logged |-> logged, calls |-> calls, skipped |-> skipped,
     aborted |-> FALSE]

\* monitor.py:79-88: the record appended (unless the write fails), the
\* analyzer called
LogAndAnalyze(st, event_id, error_message, write_ok) ==
    [st EXCEPT !.log = IF write_ok THEN @ \o LogRecord(error_message, event_id) ELSE @,
               !.logged[event_id] = IF write_ok THEN @ + 1 ELSE @,
               !.calls[event_id] = @ + 1]

\* the dedup check without the add: the id is never remembered
MarkSeenForgets(st, event_id) ==
    [st EXCEPT !.delivered[event_id] = @ + 1]

\* monitor.py:70: self.seen_event_ids.add(event_id)
MarkSeen(st, event_id) ==
    [st EXCEPT !.seen = @ \cup {event_id}, !.delivered[event_id] = @ + 1]

\* monitor.py:66-88: one event of a snowflake response
ScanSnowflakeEvent(st, event, write_ok) ==
    IF event.id \in st.seen
    THEN [st EXCEPT !.skipped = event.id]
    ELSE IF IsSnowflakeError(event.msg)
         THEN LogAndAnalyze(MarkSeen(st, event.id), event.id, event.msg, write_ok)
         ELSE MarkSeen(st, event.id)

\* a walk that takes the first OOMKilled entry whatever recent_pods holds
WalkStatusesUnsuppressed(statuses, namespace, pod_name, recent, now) ==
    IF FirstOOMKilled(statuses) # 0
    THEN [found |-> TRUE, container |-> statuses[FirstOOMKilled(statuses)].name]
    ELSE [found |-> FALSE, container |-> None]

\* monitor.py:124-141: the status list of an audit event, walked at time now:
\* found = TRUE with the container of the first OOMKilled entry whose pod was
\* not processed in the last RecentPodSeconds
RECURSIVE WalkStatuses(_, _, _, _, _)
WalkStatuses(statuses, namespace, pod_name, recent, now) ==
    IF statuses = <<>> THEN [found |-> FALSE, container |-> None]
    ELSE IF Head(statuses).reason = "OOMKilled"
            /\ ~(/\ recent[PodKey(namespace, pod_name)] # NoTime
                 /\ now - recent[PodKey(namespace, pod_name)] < RecentPodSeconds)
         THEN [found |-> TRUE, container |-> Head(statuses).name]
         ELSE WalkStatuses(Tail(statuses), namespace, pod_name, recent, now)

\* monitor.py:105-161: one event of a kubernetes response
ScanKubernetesEvent(st, event, write_ok, now) ==
    LET msg == event.msg
        st1 == MarkSeen(st, event.id)
        walk == WalkStatuses(msg.statuses, msg.namespace, msg.pod, st.recent, now)
        st2 == [st1 EXCEPT !.recent[PodKey(msg.namespace, msg.pod)] = now]
    IN  IF event.id \in st.seen
        THEN [st EXCEPT !.skipped = event.id]
        ELSE IF "OOMKilled" \notin msg.contains THEN st1
        ELSE IF msg.kind # "json"
             \* json.loads(msg) raises: the raw message is logged and analyzed;
             \* a failing write leaves the handler and ends the scan
             THEN IF write_ok
                  THEN LogAndAnalyze(st1, event.id, RawKubernetesError(msg), TRUE)
                  ELSE [st1 EXCEPT !.aborted = TRUE]
        ELSE IF "audit.k8s.io/v1" \in msg.contains
                /\ ("Forbidden" \in msg.contains \/ "is invalid" \in msg.contains)
             THEN st1
        ELSE IF ~walk.found THEN st1
        ELSE IF write_ok
             THEN LogAndAnalyze(st2, event.id,
                                TextMessage(walk.container, msg.namespace, msg.pod), TRUE)
             ELSE st2

\* the for loop over response.get("events", [])
RECURSIVE ScanSnowflake(_, _, _)
ScanSnowflake(st, events, write_ok) ==
    IF events = <<>> THEN st
    ELSE ScanSnowflake(ScanSnowflakeEvent(st, Head(events), write_ok),
                       Tail(events), write_ok)

RECURSIVE ScanKubernetes(_, _, _, _)
ScanKubernetes(st, events, write_ok, now) ==
    IF events = <<>> \/ st.aborted THEN st
    ELSE ScanKubernetes(ScanKubernetesEvent(st, Head(events), write_ok, now),
                        Tail(events), write_ok, now)

\* monitor.py:177-181
PruneRecentPods(recent, now) ==
    [k \in PodKeys |->
        IF recent[k] # NoTime /\ now - recent[k] < RecentPodSeconds
        THEN recent[k] ELSE NoTime]

(***************************************************************************)
(* The analyzer loop: log cursors, records, the hand-off slot.             *)
(***************************************************************************)
\* f.seek(last_position); new_entries = f.read(): the pieces after the offset
\* (nothing when the offset is at or past the end of the file)
ReadFrom(file, last_position) == SubSeq(file, last_position + 1, Len(file))

\* a read that starts over at the beginning of the file each time
TellRewinds(file, last_position) == 0

\* f.tell() after the read: the end of the file, or the offset when the seek
\* went past the end
Tell(file, last_position) ==
    IF last_position > Len(file) THEN last_position ELSE Len(file)

\* The part of an error message that one write of the writer's buffer puts
\* into the file: the text up to a cut ("head") or from it ("tail"); a part
\* matches no pattern and holds no marker
Fragment(part, msg) ==
    [kind |-> part, container |-> None, namespace |-> None, pod |-> None,
     statuses |-> <<>>, contains |-> {}, whole |-> msg]

IsFragment(msg) == msg.kind \in {"head", "tail"}

\* the two parts of one message, one after the other: the text of the message
IsWhole(segment) ==
    /\ Len(segment) = 2
    /\ segment[1].msg.kind = "head"
    /\ segment[2].msg.kind = "tail"
    /\ segment[1].event = segment[2].event

\* the message of one piece of new_entries.split('-' * 60): the text of its
\* messages joined; the extractor's pattern finds the first text message
SegmentMessage(segment) ==
    IF Len(segment) = 1 THEN segment[1].msg
    ELSE IF IsWhole(segment) THEN segment[1].msg.whole
    ELSE IF \E i \in 1..Len(segment) : segment[i].msg.kind = "text"
         THEN segment[CHOOSE i \in 1..Len(segment) :
                        /\ segment[i].msg.kind = "text"
                        /\ \A j \in 1..(i - 1) : segment[j].msg.kind # "text"].msg
         ELSE BadJsonMessage

\* an error handed to analyze_error, with the event id of its first piece
Error(msg, event) == [msg |-> msg, event |-> event]

\* a split that hands the pieces over newest first
RECURSIVE SplitErrorsNewestFirst(_, _)
SplitErrorsNewestFirst(pieces, acc) ==
    LET done == IF acc = <<>> THEN <<>>
                ELSE <<Error(SegmentMessage(acc), acc[1].event)>>
    IN  IF pieces = <<>> THEN done
        ELSE IF Head(pieces).delim
             THEN SplitErrorsNewestFirst(Tail(pieces), <<>>) \o done
        ELSE SplitErrorsNewestFirst(Tail(pieces), Append(acc, Head(pieces)))

\* new_entries.strip().split('-' * 60) without the empty pieces: acc is the
\* piece being collected
RECURSIVE SplitErrors(_, _)
SplitErrors(pieces, acc) ==
    LET done == IF acc = <<>> THEN <<>>
                ELSE <<Error(SegmentMessage(acc), acc[1].event)>>
    IN  IF pieces = <<>> THEN done
        ELSE IF Head(pieces).delim THEN done \o SplitErrors(Tail(pieces), <<>>)
        ELSE SplitErrors(Tail(pieces), Append(acc, Head(pieces)))

\* a record that names snowflake as its source whatever log was read
OutputSnowflakeSource(error, root_cause, remediation_steps, manifest_file, source) ==
    [error |-> error, root_cause |-> root_cause,
     remediation_steps |-> remediation_steps, manifest_file |-> manifest_file,
     source |-> "snowflake"]

\* the record json.dump writes to fix_queue.json (source "none": no record
\* was written yet)
Output(error, root_cause, remediation_steps, manifest_file, source) ==
    [error |-> error, root_cause |-> root_cause,
     remediation_steps |-> remediation_steps, manifest_file |-> manifest_file,
     source |-> source]

NoOutput == Output(Error(PlainMessage, 0), Absent, <<>>, NoFile, "none")

\* result.get("root_cause", "Unknown")
RootCauseOf(result) ==
    IF result.root_cause = Absent THEN <<"Unknown">> ELSE result.root_cause

\* the replies of the analysis service tried in the pipeline
GrantStep == TextStep(<<"GRANT SELECT ON TABLE T TO ROLE R;">>)

PipelineReplies ==
    {Reply("fenced", "r1", <<"missing grant">>, <<GrantStep>>),
     Reply("object", "r2", Absent, <<>>),
     Reply("nonobject", "r3", Absent, <<>>),
     Reply("garbage", "r4", Absent, <<>>),
     Reply("api_error", "timeout", Absent, <<>>)}

PipelineEnvs ==
    {KubectlEnv(1, NoManifest, TRUE), KubectlEnv(0, StandardManifest, TRUE)}

(***************************************************************************)
(* The fixer: generated SQL, the warehouse cursor, remediation.log.        *)
(***************************************************************************)
\* SQL commands, as their tokens
GrantSelect == <<"GRANT", "SELECT", "ON", "TABLE", "DB.S.T", "TO", "ROLE", "R", ";">>

GrantNoTerminator == <<"GRANT", "SELECT", "ON", "TABLE", "DB.S.T", "TO", "ROLE", "R">>

GrantOnAccount == <<"GRANT", "MANAGE", "GRANTS", "ON", "ACCOUNT", "TO", "ROLE", "R", ";">>

DropTable == <<"DROP", "TABLE", "DB.S.T", ";">>

SqlCommands == {GrantSelect, GrantNoTerminator, GrantOnAccount, DropTable,
                GrantSelect \o DropTable}

MaxCommands == 2

\* the reply of the completion service to the prompt of generate_sql_fix:
\* "dict": eval gives a dict with the key sql_commands; "nokey": a dict
\* without it; "other": eval raises, or gives a value without .get;
\* "api_error": the request raises
SqlReply(kind, sql_commands) == [kind |-> kind, sql_commands |-> sql_commands]

SqlReplies ==
    {SqlReply("dict", cmds) : cmds \in SeqsUpTo(SqlCommands, MaxCommands)}
    \cup {SqlReply(kind, <<>>) : kind \in {"nokey", "other", "api_error"}}

\* FixerAgent.generate_sql_fix
GenerateSqlFix(reply) ==
    IF reply.kind = "dict" THEN reply.sql_commands ELSE <<>>

\* what the warehouse does to cursor() and to the calls of cursor.execute:
\* the call number fail_at raises error (0: no call raises)
Warehouse(cursor_ok, fail_at, error) ==
    [cursor_ok |-> cursor_ok, fail_at |-> fail_at, error |-> error]

WarehouseErrors == {"ProgrammingError", "ForbiddenError", "Exception"}

Warehouses ==
    {Warehouse(TRUE, 0, "Exception"), Warehouse(FALSE, 0, "Exception")}
    \cup {Warehouse(TRUE, k, "ProgrammingError") : k \in 1..MaxCommands}
    \cup {Warehouse(TRUE, 1, e) : e \in WarehouseErrors}

\* the result of execute_fix: (success, message) and passed, the commands it
\* handed to cursor.execute, in order
FixResult(success, message, passed) ==
    [success |-> success, message |-> message, passed |-> passed]

\* an execute_fix that goes on with the commands after the one that raised
ExecuteFixContinues(sql_commands, db) ==
    IF ~db.cursor_ok THEN FixResult(FALSE, "Unexpected error", <<>>)
    ELSE IF db.fail_at = 0 \/ db.fail_at > Len(sql_commands)
         THEN FixResult(TRUE, "All SQL commands executed successfully", sql_commands)
    ELSE FixResult(FALSE, "SQL execution failed", sql_commands)

\* FixerAgent.execute_fix
ExecuteFix(sql_commands, db) ==
    IF ~db.cursor_ok THEN FixResult(FALSE, "Unexpected error", <<>>)
    ELSE IF db.fail_at = 0 \/ db.fail_at > Len(sql_commands)
         THEN FixResult(TRUE, "All SQL commands executed successfully", sql_commands)
    ELSE FixResult(FALSE,
                   CASE db.error = "ProgrammingError" -> "SQL execution failed"
                     [] db.error = "ForbiddenError" -> "Permission error"
                     [] OTHER -> "Unexpected error",
                   SubSeq(sql_commands, 1, db.fail_at))

\* the error message of a warehouse incident: object is the name in
\* "Object '<db.schema.name>' does not exist or not authorized" (None: the
\* text holds no such sentence)
WarehouseError(object) == [object |-> object]

WarehouseErrorMessages == {WarehouseError("DB.S.T"), WarehouseError(None)}

\* a verify_fix that runs the liveness probe whatever the error names
VerifyQueryProbeOnly(error_message) ==
    <<"SELECT", "CURRENT_TIMESTAMP()">>

\* the query verify_fix hands to cursor.execute
VerifyQuery(error_message) ==
    IF error_message.object # None
    THEN <<"SELECT", "1", "FROM", error_message.object, "LIMIT", "1">>
    ELSE <<"SELECT", "CURRENT_TIMESTAMP()">>

\* FixerAgent.verify_fix (fail_at = 1: the query raises)
VerifyFix(error_message, db) ==
    IF db.cursor_ok /\ db.fail_at # 1
    THEN [verified |-> TRUE, message |-> "Verification successful",
          query |-> VerifyQuery(error_message)]
    ELSE [verified |-> FALSE,
          message |-> IF db.cursor_ok /\ db.error = "ProgrammingError"
                      THEN "Verification failed" ELSE "Unexpected error",
          query |-> IF db.cursor_ok THEN VerifyQuery(error_message) ELSE <<>>]

VerifyWarehouses ==
    {Warehouse(TRUE, 0, "Exception"), Warehouse(TRUE, 1, "ProgrammingError"),
     Warehouse(FALSE, 0, "Exception")}

\* the analyses handed to receive_error: root cause and remediation steps
FixerAnalyses ==
    {Analysis(<<"missing grant">>, <<GrantStep>>, NoFile),
     Analysis(<<"Failed to parse JSON from LLM">>, <<TextStep(<<"r4">>)>>, NoFile)}

\* the retries the feedback loop is meant to stop at
MaxRetries == 1

\* the calls of receive_error followed for one incident
MaxAttempts == MaxRetries + 2

(***************************************************************************)
(* State.                                                                  *)
(***************************************************************************)
VARIABLES
    k_pc,        \* one analysis of an orchestrator incident: "ready", "done"
    k_msg,       \* its error_message
    k_env,       \* what kubectl does during it
    k_result,    \* what analyze_error returned
    k_info,      \* what _extract_pod_info returned in it
    k_saved      \* the ModifyResult of its _modify_pod_manifest call

kvars == <<k_pc, k_msg, k_env, k_result, k_info, k_saved>>

VARIABLES
    now,             \* the clock, in seconds
    snowflake_conn,  \* ErrorAnalyzerAgent.snowflake_conn is not None
    mon_pc,          \* MonitorAgent.run: "snowflake", "kubernetes", "prune"
    seen_event_ids,  \* MonitorAgent.seen_event_ids
    recent_pods,     \* MonitorAgent.recent_pods: pod key -> time (NoTime: no entry)
    log,             \* snowflake_errors.log and kubernetes_errors.log
    last_position,   \* last_position_snowflake, last_position_kubernetes
    an_pc,           \* ErrorAnalyzerAgent.run: "read", "analyze", "sleep", and
                     \* after an exception left run "crashed" or "io_error"
    an_source,       \* the log the loop is working on
    an_errors,       \* the errors of the last read not analyzed yet
    fix_queue,       \* the record in fix_queue.json
    delivered,       \* per event id: times it passed the dedup check
    logged,          \* per event id: records written for it
    mon_calls,       \* per event id: analyze_error calls of the monitor
    skipped,         \* the event id that came again and was skipped last (0: none)
    rotated,         \* per log: the file was rotated at some time
    returned,        \* per log: the offsets whose pieces a read has returned
    reread           \* per log: a read returned an offset already returned

pvars == <<now, snowflake_conn, mon_pc, seen_event_ids, recent_pods, log,
           last_position, an_pc, an_source, an_errors, fix_queue, delivered,
           logged, mon_calls, skipped, rotated, returned, reread>>

VARIABLES
    f_pc,            \* the fixer: "ready" (receive_error is called next),
                     \* "feedback" (inside receive_feedback), "done", "raised"
    analyzer_agent,  \* FixerAgent.analyzer_agent is not None
    f_error,         \* the error_message of the incident
    f_analysis,      \* the root cause and the steps handed to receive_error
    f_feedback,      \* the message handed to receive_feedback
    executed,        \* the commands the last execute_fix gave to cursor.execute
    verify_query,    \* the query the last verify_fix gave to cursor.execute
    remediation_log, \* the statuses written to remediation.log
    attempts,        \* the calls of receive_error for the incident
    f_commands,      \* the sql_commands of the last receive_error
    failed_at,       \* the call of cursor.execute that raised in the last
                     \* execute_fix (0: none)
    verification     \* the last verify_fix: "not run", "passed", "raised"

fvars == <<f_pc, analyzer_agent, f_error, f_analysis, f_feedback, executed,
           verify_query, remediation_log, attempts, f_commands, failed_at,
           verification>>

VARIABLES
    w_pc,            \* the writer of fix_queue.json (agent.py:245-246):
                     \* "idle", "opened" (the file truncated), "dumping"
    w_rec,           \* the number of the analysis written last (0: none)
    fq_file,         \* the content of fix_queue.json
    x_pc,            \* the executor: "idle", "attempt"
    x_read,          \* the content the executor's last read returned
    x_rec,           \* the number of the analysis the executor took last
    in_flight,       \* per analysis, the attempts started and not ended
    consumed,        \* the analyses the executor has read whole
    lost             \* the analyses overwritten before the executor read them

hvars == <<w_pc, w_rec, fq_file, x_pc, x_read, x_rec, in_flight, consumed, lost>>

VARIABLES
    seen_at          \* per event id: the time it was added to seen_event_ids
                     \* (NoTime: never), recorded by the stamped polls

dvars == <<seen_at>>

VARIABLES
    clock,           \* the time at the telemetry source and the monitor, in seconds
    next_poll,       \* the time of the monitor's next poll
    held,            \* the timestamps of the events the telemetry source holds
    in_window        \* the timestamps that were inside the window of a poll

wvars == <<clock, next_poll, held, in_window>>

VARIABLES
    c_pc,            \* one call of analyze_error for a snowflake error: "ready",
                     \* "done"
    c_reply,         \* the text of the reply of the analysis service
    c_raised,        \* the call of the service raised
    c_result         \* what analyze_error returned

cvars == <<c_pc, c_reply, c_raised, c_result>>

VARIABLES
    sup_pc,          \* the thread of run_system (main.py:28-32): "none", "starting"
                     \* (started, start_system not yet at its first line),
                     \* "test" (at while self.running), "tasks", "coordinate",
                     \* "sleep", "backoff", "ended"
    running,         \* SupervisorOrchestrator.running
    cycle_count,     \* cycle_count of _coordination_loop
    threads,         \* the threads started by /start-system
    stop_pending     \* stop_system was called since the last thread was started

svars == <<sup_pc, running, cycle_count, threads, stop_pending>>

VARIABLES
    y_pc,            \* one thread in _coordination_loop with the agents' files:
                     \* "test", "tasks", "coordinate", "sleep"
    y_cycle,         \* its cycle_count
    y_ran,           \* the agents whose execute_task has returned in this cycle
    y_seen,          \* MonitorAgent.seen_event_ids (monitor_agent.py:15)
    y_log,           \* snowflake_errors.log, in pieces
    y_position,      \* AnalyzerAgent.last_position
    y_analyzed       \* the errors the analyzer handed to _analyze_error

yvars == <<y_pc, y_cycle, y_ran, y_seen, y_log, y_position, y_analyzed>>

VARIABLES
    incident_at      \* per pod: the time the monitor wrote its last OOM incident
                     \* (NoTime: none), recorded by the polls of SpecSuppress

VARIABLES
    view_rows,       \* the rows of one view: per row its timestamp column
    last_timestamp,  \* LogForwarderAgent.last_timestamps[view_name]
    sent             \* per row: the put_log_events calls that sent it

lvars == <<view_rows, last_timestamp, sent>>

VARIABLES
    pod_log,         \* the log of one pod: its lines, oldest first
    lines_written,   \* the lines the pod has written since the start
    last_seen_logs,  \* last_seen_logs[pod] of main (NoCount: no entry)
    lines_sent       \* per line: the put_log_events calls that sent it

uvars == <<pod_log, lines_written, last_seen_logs, lines_sent>>

VARIABLES
    thread_pc,       \* per thread of run_system (main.py:28-32): "unstarted",
                     \* "starting" (started, start_system not yet at its first
                     \* line), "test" (at while self.running), "cycle", "sleep",
                     \* "ended"
    thread_cycles,   \* per thread: cycle_count of its _coordination_loop
    system_thread,   \* the global system_thread of main.py (0: None)
    start_returned   \* a /start-system request has returned and no /stop-system
                     \* request came after it

tvars == <<thread_pc, thread_cycles, system_thread, start_returned>>

VARIABLES
    agent_performance,  \* MetricsCollector.metrics["agent_performance"]
    recorded            \* per agent: the calls of record_agent_performance and
                        \* those among them with status "success"

mvars == <<agent_performance, recorded>>

gvars == <<yvars, incident_at, lvars, uvars, tvars, mvars>>

ovars == <<dvars, wvars, cvars, svars, gvars>>

vars == <<kvars, pvars, fvars, hvars, ovars>>

\* nothing observed
WindowAtRest ==
    /\ clock = 0
    /\ next_poll = 0
    /\ held = {}
    /\ in_window = {}

\* no call of analyze_error by itself
ClassifierAtRest ==
    /\ c_pc = "off"
    /\ c_reply = <<>>
    /\ c_raised = FALSE
    /\ c_result = NoAnalysis

\* supervisor.py:28: the orchestrator built, no thread started
SupervisorAtRest ==
    /\ sup_pc = "none"
    /\ running = FALSE
    /\ cycle_count = 0
    /\ threads = 0
    /\ stop_pending = FALSE

\* no coordination cycle with the agents' files
CycleAtRest ==
    /\ y_pc = "off"
    /\ y_cycle = 0
    /\ y_ran = <<>>
    /\ y_seen = {}
    /\ y_log = <<>>
    /\ y_position = 0
    /\ y_analyzed = <<>>

\* no OOM incident on record
SuppressAtRest == incident_at = [k \in PodKeys |-> NoTime]

\* no view forwarded
ForwardAtRest ==
    /\ view_rows = <<>>
    /\ last_timestamp = 0
    /\ sent = <<>>

\* no entry of last_seen_logs for the pod
NoCount == -1

\* no pod watched
ClusterAtRest ==
    /\ pod_log = <<>>
    /\ lines_written = 0
    /\ last_seen_logs = NoCount
    /\ lines_sent = <<>>

\* threads of run_system, requests of a run
MaxThreads == 2

ThreadIds == 1..MaxThreads

\* main.py:15: system_thread = None, no request served
ThreadsAtRest ==
    /\ thread_pc = [t \in ThreadIds |-> "unstarted"]
    /\ thread_cycles = [t \in ThreadIds |-> 0]
    /\ system_thread = 0
    /\ start_returned = FALSE

\* metrics.py:9-15: agent_performance = {}
MetricsAtRest ==
    /\ agent_performance = <<>>
    /\ recorded = <<>>

FurtherAtRest ==
    /\ CycleAtRest
    /\ SuppressAtRest
    /\ ForwardAtRest
    /\ ClusterAtRest
    /\ ThreadsAtRest
    /\ MetricsAtRest

OthersAtRest ==
    /\ seen_at = [i \in EventIds |-> NoTime]
    /\ WindowAtRest
    /\ ClassifierAtRest
    /\ SupervisorAtRest
    /\ FurtherAtRest

\* analyses written to fix_queue.json in a run
MaxRecords == 4

\* the content of fix_queue.json: written is "none" (no file), "empty",
\* "partial" (the beginning of the text of record rec) or "whole"
FileContent(written, rec) == [written |-> written, rec |-> rec]

\* nothing written and nothing read
SlotAtRest(pc) ==
    /\ w_pc = pc
    /\ w_rec = 0
    /\ fq_file = FileContent("none", 0)
    /\ x_pc = pc
    /\ x_read = FileContent("none", 0)
    /\ x_rec = 0
    /\ in_flight = [rec \in 1..MaxRecords |-> 0]
    /\ consumed = {}
    /\ lost = {}

\* no incident at the fixer
FixerAtRest ==
    /\ f_pc = "off"
    /\ analyzer_agent = FALSE
    /\ f_error = WarehouseError(None)
    /\ f_analysis = NoAnalysis
    /\ f_feedback = ""
    /\ executed = <<>>
    /\ verify_query = <<>>
    /\ remediation_log = <<>>
    /\ attempts = 0
    /\ f_commands = <<>>
    /\ failed_at = 0
    /\ verification = "not run"

\* the pipeline before anything ran
PipelineAtRest(conn) ==
    /\ now = 0
    /\ snowflake_conn = conn
    /\ mon_pc = "snowflake"
    /\ seen_event_ids = {}
    /\ recent_pods = [k \in PodKeys |-> NoTime]
    /\ log = [s \in Sources |-> <<>>]
    /\ last_position = [s \in Sources |-> 0]
    /\ an_pc = "read"
    /\ an_source = "snowflake"
    /\ an_errors = <<>>
    /\ fix_queue = NoOutput
    /\ delivered = [i \in EventIds |-> 0]
    /\ logged = [i \in EventIds |-> 0]
    /\ mon_calls = [i \in EventIds |-> 0]
    /\ skipped = 0
    /\ rotated = [s \in Sources |-> FALSE]
    /\ returned = [s \in Sources |-> {}]
    /\ reread = [s \in Sources |-> FALSE]

\* no analysis of a single incident under way
K8sAtRest ==
    /\ k_pc = "off"
    /\ k_msg = StandardMessage
    /\ k_env = KubectlEnv(1, NoManifest, TRUE)
    /\ k_result = NoAnalysis
    /\ k_info = NoPodInfo
    /\ k_saved = ModifyFailed

InitK8s ==
    /\ k_pc = "ready"
    /\ \/ k_msg \in MessageInputs /\ k_env \in BasicEnvs
       \/ k_msg = StandardMessage /\ k_env \in QuantityEnvs
    /\ k_result = NoAnalysis
    /\ k_info = NoPodInfo
    /\ k_saved = ModifyFailed
    /\ PipelineAtRest(FALSE)
    /\ FixerAtRest
    /\ SlotAtRest("off")
    /\ OthersAtRest

\* analyze_error(error_message, source="kubernetes")
AnalyzeOrchestratorIncident ==
    /\ k_pc = "ready"
    /\ k_pc' = "done"
    /\ k_result' = AnalyzeError(k_msg, "kubernetes", FALSE,
                                Reply("api_error", "", Absent, <<>>), k_env)
    /\ k_info' = ExtractPodInfo(k_msg)
    /\ k_saved' = SavedManifest(k_msg, "kubernetes", k_env)
    /\ UNCHANGED <<k_msg, k_env, pvars, fvars, hvars, ovars>>

NextK8s == AnalyzeOrchestratorIncident

SpecK8s == InitK8s /\ [][NextK8s]_vars

(***************************************************************************)
(* Claims about one analysis of an orchestrator incident (SpecK8s).        *)
(***************************************************************************)
\* the container of the fetched manifest that the analysis rewrites
TargetIndex == FindContainer(k_env.manifest.containers, k_info.container)

TargetBefore == k_env.manifest.containers[TargetIndex]

TargetAfter == k_saved.manifest.containers[TargetIndex]

\* the fetch gave a manifest that holds the container, and the file is writable
Patchable ==
    /\ k_pc = "done"
    /\ Truthy(k_info.pod) /\ Truthy(k_info.namespace) /\ Truthy(k_info.container)
    /\ k_env.rc = 0 /\ k_env.write_ok
    /\ TargetIndex # 0

\* C6: a container with CPU limit "<n>m" and memory limit "<k>Mi" gets CPU
\* limit "<2n>m" and request "<n>m", memory limit "<2k>Mi" and request "<k>Mi"
C6_MilliMiArithmetic ==
    \A n \in QtyNumbers, k \in QtyNumbers :
        (/\ Patchable
         /\ TargetBefore.cpu_limit = MilliCpu(n)
         /\ TargetBefore.memory_limit = MiMemory(k))
        => /\ k_saved.saved
           /\ TargetAfter.cpu_limit = MilliCpu(2 * n)
           /\ TargetAfter.cpu_request = MilliCpu(n)
           /\ TargetAfter.memory_limit = MiMemory(2 * k)
           /\ TargetAfter.memory_request = MiMemory(k)

\* the documented example: 500m and 512Mi became 1000m/500m and 1024Mi/512Mi
C6_Witness ==
    /\ Patchable
    /\ TargetBefore.cpu_limit = <<"5", "0", "0", "m">>
    /\ TargetBefore.memory_limit = <<"5", "1", "2", "M", "i">>
    /\ TargetAfter.cpu_limit = <<"1", "0", "0", "0", "m">>
    /\ TargetAfter.cpu_request = <<"5", "0", "0", "m">>
    /\ TargetAfter.memory_limit = <<"1", "0", "2", "4", "M", "i">>
    /\ TargetAfter.memory_request = <<"5", "1", "2", "M", "i">>

\* C7: a memory limit "<k>Gi" becomes limit "<2k>Gi" and request "<k>Gi",
\* each an integer followed by the suffix
C7_GiArithmetic ==
    \A k \in QtyNumbers :
        (Patchable /\ k_saved.saved /\ TargetBefore.memory_limit = GiMemory(k))
        => /\ TargetAfter.memory_limit = GiMemory(2 * k)
           /\ TargetAfter.memory_request = GiMemory(k)

\* C8: the remediation of an orchestrator incident is no command at all, or
\* the delete of the pod and then the apply of the patched manifest's file
C8_DeleteThenApply ==
    k_pc = "done" =>
        \/ k_result.remediation_steps = <<>> /\ k_result.manifest_file = NoFile
        \/ /\ k_result.remediation_steps =
                <<DeleteCmd(k_msg.pod, k_msg.namespace),
                  ApplyCmd(ManifestFile(k_msg.namespace, k_msg.pod))>>
           /\ k_result.manifest_file = ManifestFile(k_msg.namespace, k_msg.pod)
           /\ k_saved.saved
           /\ k_saved.manifest_file = k_result.manifest_file

\* both outcomes happen: two commands, and (elsewhere) none
C8_Witness ==
    /\ k_pc = "done"
    /\ Len(k_result.remediation_steps) = 2
    /\ k_result.remediation_steps[1].op = "delete"
    /\ k_result.remediation_steps[2].op = "apply"

\* a JSON audit payload with objectRef.namespace, objectRef.name and a status
\* list whose entries carry their names, one of them OOMKilled
WellFormedOOMPayload(msg) ==
    /\ HasJson(msg)
    /\ msg.namespace # None /\ msg.pod # None
    /\ \A i \in 1..Len(msg.statuses) : msg.statuses[i].name # None
    /\ \E i \in 1..Len(msg.statuses) : msg.statuses[i].reason = "OOMKilled"

\* C9: for a well-formed OOM payload the extractor returns the pod, the
\* namespace and the name of the first OOMKilled entry, none of them None
C9_ExtractsWellFormed ==
    (k_pc = "done" /\ WellFormedOOMPayload(k_msg))
    => /\ k_info.pod = k_msg.pod /\ k_info.pod # None
       /\ k_info.namespace = k_msg.namespace /\ k_info.namespace # None
       /\ k_info.container # None
       /\ \E i \in 1..Len(k_msg.statuses) :
             /\ k_msg.statuses[i].reason = "OOMKilled"
             /\ \A j \in 1..(i - 1) : k_msg.statuses[j].reason # "OOMKilled"
             /\ k_info.container = k_msg.statuses[i].name

\* a payload with two OOMKilled entries of different names was extracted
C9_Witness ==
    /\ k_pc = "done"
    /\ WellFormedOOMPayload(k_msg)
    /\ Len(k_msg.statuses) = 2
    /\ k_msg.statuses[1].reason = "OOMKilled"
    /\ k_msg.statuses[2].reason = "OOMKilled"
    /\ k_msg.statuses[1].name # k_msg.statuses[2].name
    /\ k_info.container = k_msg.statuses[1].name

\* C31: the manifest written for recreation has no status and none of the
\* metadata keys creationTimestamp, resourceVersion, uid and generation; its
\* other metadata keys, its other containers and the name and image of the
\* rewritten container are those of the fetched manifest
C31_ServerFieldsStripped ==
    (Patchable /\ k_saved.saved)
    => /\ ~k_saved.manifest.status
       /\ k_saved.manifest.metadata
             \cap {"creationTimestamp", "resourceVersion", "uid", "generation"} = {}
       /\ k_saved.manifest.metadata =
             k_env.manifest.metadata
             \ {"creationTimestamp", "resourceVersion", "uid", "generation"}
       /\ Len(k_saved.manifest.containers) = Len(k_env.manifest.containers)
       /\ \A j \in 1..Len(k_env.manifest.containers) :
             j # TargetIndex
             => k_saved.manifest.containers[j] = k_env.manifest.containers[j]
       /\ TargetAfter.name = TargetBefore.name
       /\ TargetAfter.image = TargetBefore.image

\* a manifest with status, the four managed keys and a second container was
\* rewritten: the keys are gone, the user's keys and the other container stay
C31_Witness ==
    /\ Patchable /\ k_saved.saved
    /\ k_env.manifest.status
    /\ {"creationTimestamp", "resourceVersion", "uid", "generation"}
          \subseteq k_env.manifest.metadata
    /\ TargetIndex = 2
    /\ k_saved.manifest.containers[1] = OtherContainer
    /\ k_saved.manifest.metadata = {"name", "namespace"}
    /\ TargetAfter # TargetBefore

(***************************************************************************)
(* The pipeline: the monitor loop, the analyzer loop, the log files.       *)
(***************************************************************************)
\* the clock advances in steps of TickSeconds up to MaxTime
TickSeconds == 30

MaxTime == 90

Init ==
    /\ K8sAtRest
    /\ \E conn \in BOOLEAN : PipelineAtRest(conn)
    /\ FixerAtRest
    /\ SlotAtRest("off")
    /\ OthersAtRest

Tick ==
    /\ now + TickSeconds <= MaxTime
    /\ now' = now + TickSeconds
    /\ UNCHANGED <<ovars, hvars, kvars, fvars, snowflake_conn, mon_pc, seen_event_ids, recent_pods,
                   log, last_position, an_pc, an_source, an_errors, fix_queue,
                   delivered, logged, mon_calls, skipped, rotated, returned,
                   reread>>

\* the scan state of the monitor for the log of one source
ScanStateOf(source) ==
    ScanState(seen_event_ids, recent_pods, log[source], delivered, logged,
              mon_calls, skipped)

\* the monitor's state after a scan
ScanDone(source, st) ==
    /\ seen_event_ids' = st.seen
    /\ recent_pods' = st.recent
    /\ log' = [log EXCEPT ![source] = st.log]
    /\ delivered' = st.delivered
    /\ logged' = st.logged
    /\ mon_calls' = st.calls
    /\ skipped' = st.skipped

\* MonitorAgent.run, first part: search_snowflake_errors on a response of the
\* telemetry source with up to batch events (skipped without a snowflake
\* connection)
PollSnowflake(batch) ==
    /\ mon_pc = "snowflake"
    /\ mon_pc' = "kubernetes"
    /\ IF snowflake_conn
       THEN \E events \in SeqsUpTo(SnowflakeEvents, batch), write_ok \in BOOLEAN :
                ScanDone("snowflake",
                         ScanSnowflake(ScanStateOf("snowflake"), events, write_ok))
       ELSE UNCHANGED <<seen_event_ids, recent_pods, log, delivered, logged,
                        mon_calls, skipped>>
    /\ UNCHANGED <<hvars, kvars, fvars, now, snowflake_conn, last_position, an_pc, an_source,
                   an_errors, fix_queue, rotated, returned, reread>>

MonitorPollSnowflake(batch) == PollSnowflake(batch) /\ UNCHANGED ovars

\* MonitorAgent.run, second part: search_kubernetes_errors
PollKubernetes(batch) ==
    /\ mon_pc = "kubernetes"
    /\ mon_pc' = "prune"
    /\ \E events \in SeqsUpTo(KubernetesEvents, batch), write_ok \in BOOLEAN :
            ScanDone("kubernetes",
                     ScanKubernetes(ScanStateOf("kubernetes"), events, write_ok, now))
    /\ UNCHANGED <<hvars, kvars, fvars, now, snowflake_conn, last_position, an_pc, an_source,
                   an_errors, fix_queue, rotated, returned, reread>>

MonitorPollKubernetes(batch) == PollKubernetes(batch) /\ UNCHANGED ovars

\* MonitorAgent.run, third part: recent_pods pruned, then the sleep
MonitorPrune ==
    /\ mon_pc = "prune"
    /\ mon_pc' = "snowflake"
    /\ recent_pods' = PruneRecentPods(recent_pods, now)
    /\ UNCHANGED <<ovars, hvars, kvars, fvars, now, snowflake_conn, seen_event_ids, log, last_position,
                   an_pc, an_source, an_errors, fix_queue, delivered, logged,
                   mon_calls, skipped, rotated, returned, reread>>

\* the environment rotates an error log: the file starts empty again
Rotate(source) ==
    /\ log[source] # <<>>
    /\ log' = [log EXCEPT ![source] = <<>>]
    /\ rotated' = [rotated EXCEPT ![source] = TRUE]
    /\ UNCHANGED <<ovars, hvars, kvars, fvars, now, snowflake_conn, mon_pc, seen_event_ids, recent_pods,
                   last_position, an_pc, an_source, an_errors, fix_queue,
                   delivered, logged, mon_calls, skipped, returned, reread>>

\* where the analyzer loop goes after the log of a source is done
AfterSource(source) ==
    IF source = "snowflake"
    THEN an_pc' = "read" /\ an_source' = "kubernetes"
    ELSE an_pc' = "sleep" /\ an_source' = "snowflake"

\* agent.py:227-231 and 249-253: the log of an_source read from the offset
AnalyzerRead ==
    /\ an_pc = "read"
    /\ IF an_source = "snowflake" /\ ~snowflake_conn
       THEN /\ AfterSource(an_source)
            /\ UNCHANGED <<last_position, an_errors, returned, reread>>
       ELSE LET file == log[an_source]
                pos == last_position[an_source]
                new_entries == ReadFrom(file, pos)
                offsets == (pos + 1)..Len(file)
            IN  /\ last_position' = [last_position EXCEPT ![an_source] = Tell(file, pos)]
                /\ returned' = [returned EXCEPT ![an_source] = @ \cup offsets]
                /\ reread' = [reread EXCEPT ![an_source] =
                                 @ \/ (offsets \cap returned[an_source] # {})]
                /\ an_errors' = SplitErrors(new_entries, <<>>)
                /\ IF SplitErrors(new_entries, <<>>) = <<>>
                   THEN AfterSource(an_source)
                   ELSE an_pc' = "analyze" /\ an_source' = an_source
    /\ UNCHANGED <<ovars, hvars, kvars, fvars, now, snowflake_conn, mon_pc, seen_event_ids, recent_pods,
                   log, fix_queue, delivered, logged, mon_calls, skipped,
                   rotated>>

\* agent.py:234-247 and 256-270: the next error analyzed and its record
\* written to fix_queue.json; a result that is no dict ends the loop
\* (result.get raises), and so does an open or a write of fix_queue.json that
\* raises (run has no try)
AnalyzerAnalyze ==
    /\ an_pc = "analyze"
    /\ \/ \E reply \in PipelineReplies, env \in PipelineEnvs :
            LET err == Head(an_errors)
                result == AnalyzeError(err.msg, an_source, snowflake_conn, reply, env)
            IN  IF ~result.dict
                THEN /\ an_pc' = "crashed"
                     /\ UNCHANGED <<an_source, an_errors, fix_queue>>
                ELSE /\ fix_queue' = Output(err, RootCauseOf(result),
                                            result.remediation_steps,
                                            result.manifest_file, an_source)
                     /\ an_errors' = Tail(an_errors)
                     /\ IF Tail(an_errors) = <<>>
                        THEN AfterSource(an_source)
                        ELSE UNCHANGED <<an_pc, an_source>>
       \/ /\ an_pc' = "io_error"
          /\ UNCHANGED <<an_source, an_errors, fix_queue>>
    /\ UNCHANGED <<ovars, hvars, kvars, fvars, now, snowflake_conn, mon_pc, seen_event_ids, recent_pods,
                   log, last_position, delivered, logged, mon_calls, skipped,
                   rotated, returned, reread>>

\* agent.py:272: time.sleep(10), then the next round
AnalyzerSleep ==
    /\ an_pc = "sleep"
    /\ an_pc' = "read"
    /\ UNCHANGED <<ovars, hvars, kvars, fvars, now, snowflake_conn, mon_pc, seen_event_ids, recent_pods,
                   log, last_position, an_source, an_errors, fix_queue, delivered,
                   logged, mon_calls, skipped, rotated, returned, reread>>

\* events per response in the pipeline
MaxPipelineBatch == 1

\* The pipeline within the first RecentPodSeconds seconds: the clock of the
\* monitor stands at 0 (the clock matters to recent_pods alone, see
\* SpecMonitor), and a response holds up to MaxPipelineBatch events (a response
\* of several events leaves seen_event_ids, recent_pods and the logs as the
\* responses of its events leave them one after the other)
Next ==
    \/ MonitorPollSnowflake(MaxPipelineBatch)
    \/ MonitorPollKubernetes(MaxPipelineBatch)
    \/ MonitorPrune
    \/ \E source \in Sources : Rotate(source)
    \/ AnalyzerRead
    \/ AnalyzerAnalyze
    \/ AnalyzerSleep

Spec == Init /\ [][Next]_vars

\* The monitor loop alone, with its clock and responses of up to MaxBatch events
NextMonitor ==
    \/ Tick
    \/ MonitorPollSnowflake(MaxBatch)
    \/ MonitorPollKubernetes(MaxBatch)
    \/ MonitorPrune

SpecMonitor == Init /\ [][NextMonitor]_vars

\* the time of the poll recorded for the event ids the poll added to
\* seen_event_ids
Stamp ==
    seen_at' = [i \in EventIds |->
                   IF i \in seen_event_ids' \ seen_event_ids THEN now ELSE seen_at[i]]

StampedPollSnowflake == PollSnowflake(MaxBatch) /\ Stamp /\ UNCHANGED <<wvars, cvars, svars, gvars>>

StampedPollKubernetes == PollKubernetes(MaxBatch) /\ Stamp /\ UNCHANGED <<wvars, cvars, svars, gvars>>

\* The monitor loop with the age of the entries of seen_event_ids on record
NextDedup ==
    \/ Tick
    \/ StampedPollSnowflake
    \/ StampedPollKubernetes
    \/ MonitorPrune

SpecDedup == Init /\ [][NextDedup]_vars

(***************************************************************************)
(* Claims about the monitor (SpecMonitor).                                 *)
(***************************************************************************)
\* the records of the error logs written for an event id
RecordsOf(id) ==
    UNION {{<<source, i>> : i \in {j \in 1..Len(log[source]) :
                                      /\ ~log[source][j].delim
                                      /\ log[source][j].event = id}} :
           source \in Sources}

\* C3: an event id that the telemetry source returns again, in a later poll or
\* in the same response, while seen_event_ids holds it, is delivered once: it
\* passes the dedup check once, at most one record is written for it and the
\* monitor calls analyze_error for it at most once
C3_DedupIdempotent ==
    \A id \in EventIds :
        /\ delivered[id] <= 1
        /\ logged[id] <= 1
        /\ mon_calls[id] <= 1
        /\ Cardinality(RecordsOf(id)) = logged[id]
        /\ (id = skipped => id \in seen_event_ids /\ delivered[id] = 1)

\* an event came again and was skipped, with its one record and its one call
C3_Witness ==
    \E id \in EventIds :
        /\ id = skipped
        /\ delivered[id] = 1
        /\ logged[id] = 1
        /\ mon_calls[id] = 1
        /\ Cardinality(RecordsOf(id)) = 1

\* monitor.py:57 and 95: start_time = now - 5 * 1000: the window of a poll,
\* in seconds
WindowSeconds == 5

\* the prune at the end of a round of the monitor's loop
PruneStep ==
    /\ mon_pc = "prune"
    /\ mon_pc' = "snowflake"

\* C25: seen_event_ids is bounded by the window: an id added longer ago than
\* the window (its event is older than the window, and no poll returns it
\* again) is not in the set after a prune
C25_DedupBounded ==
    [][PruneStep
        => \A id \in seen_event_ids' : now - seen_at[id] <= WindowSeconds]_vars

\* a poll of the monitor's loop for one source
PollStep(source) ==
    /\ mon_pc = source
    /\ mon_pc' # source

\* C29: seen_event_ids belongs to the loop of one source: what the poll of one
\* source remembers never changes what a scan of the other source does with an
\* event, so no event is skipped because the other source delivered its id
C29_DedupPerSource ==
    [][/\ PollStep("snowflake")
            => \A event \in KubernetesEvents :
                  ScanKubernetesEvent(ScanStateOf("kubernetes"), event, TRUE, now).log
                    = ScanKubernetesEvent(ScanStateOf("kubernetes")', event, TRUE, now).log
       /\ PollStep("kubernetes")
            => \A event \in SnowflakeEvents :
                  ScanSnowflakeEvent(ScanStateOf("snowflake"), event, TRUE).log
                    = ScanSnowflakeEvent(ScanStateOf("snowflake")', event, TRUE).log]_vars

(***************************************************************************)
(* Claims about the analyzer loop and the hand-off slot (Spec).            *)
(***************************************************************************)
\* this step is the analyzer's read of the log of a source
ReadStep(source) ==
    /\ an_pc = "read" /\ an_source = source
    /\ (source = "snowflake" => snowflake_conn)
    /\ <<an_pc, an_source>>' # <<an_pc, an_source>>

\* C4: while a log was never rotated, no read returns a piece that an earlier
\* read returned, and the stored offset never decreases
C4_NoRereadMonotonic ==
    [][\A s \in Sources :
          ~rotated'[s] => /\ ~reread'[s]
                          /\ last_position'[s] >= last_position[s]]_vars

\* a second read of a log that grew returned the second record alone
C4_Witness ==
    /\ ~rotated["snowflake"]
    /\ Len(log["snowflake"]) = 4
    /\ last_position["snowflake"] = 4
    /\ returned["snowflake"] = 1..4
    /\ an_pc = "analyze" /\ an_source = "snowflake"
    /\ Len(an_errors) = 1
    /\ an_errors[1].event = log["snowflake"][3].event
    /\ an_errors[1].event # log["snowflake"][1].event

\* C5: a read of a log that is shorter than the stored offset starts at 0: it
\* returns the whole file and leaves the offset at the length of the file
C5_ShrinkResets ==
    [][\A s \in Sources :
          (ReadStep(s) /\ Len(log[s]) < last_position[s])
          => /\ last_position'[s] = Len(log[s])
             /\ an_errors' = SplitErrors(log[s], <<>>)]_vars

\* pod, namespace and container can be extracted from a message
Extractable(msg) ==
    /\ Truthy(ExtractPodInfo(msg).pod)
    /\ Truthy(ExtractPodInfo(msg).namespace)
    /\ Truthy(ExtractPodInfo(msg).container)

\* C10: no record of a kubernetes error without pod, namespace and container
\* is written to fix_queue.json
C10_FailClosed ==
    fix_queue.source = "kubernetes" => Extractable(fix_queue.error.msg)

\* C11: whatever the analysis service replies, the polling loop that called
\* analyze_error stays alive and goes on to the next incident
C11_NeverFailsHard ==
    an_pc # "crashed"

\* the analysis of the first pending error has been written by this step
AnalysisWritten ==
    /\ an_pc = "analyze"
    /\ an_errors' = Tail(an_errors)

C22_UnreachableRetried ==
    (/\ ~snowflake_conn
     /\ mon_pc = "snowflake"
     /\ an_pc = "read"
     /\ an_source = "snowflake")
        => ENABLED (Next /\ snowflake_conn')

\* C23: no failure ends a loop: whatever failed while an incident was
\* processed (the classification, a read of a log, the write of the hand-off
\* file), the analyzer loop has a next step
C23_NoFailureFatal == ENABLED (AnalyzerRead \/ AnalyzerAnalyze \/ AnalyzerSleep)

\* the other source
Other(source) == IF source = "snowflake" THEN "kubernetes" ELSE "snowflake"

\* the log of a source holds pieces that no read has returned yet
Unread(source) == last_position[source] < Len(log[source])

\* C21: each source has its own polling loop: while the classification of an
\* error of one source is under way, however long it takes, the records that
\* wait in the log of the other source can be read
C21_IndependentLoops ==
    \A source \in Sources :
        (/\ an_pc = "analyze"
         /\ an_source = source
         /\ Unread(Other(source))
         /\ (Other(source) = "snowflake" => snowflake_conn))
            => ENABLED (an_source = Other(source) /\ AnalyzerRead)

\* the event ids of the messages in pieces of a log, in the order of the file
MessageEvents(pieces) ==
    LET msgs == SelectSeq(pieces, LAMBDA p : ~p.delim)
    IN  [i \in 1..Len(msgs) |-> msgs[i].event]

\* C28: the errors of one source are handed to analyze_error in the order in
\* which their records were appended to the log of the source: a read queues
\* the new records in file order and each analysis takes the first of the
\* queue (nothing orders the errors of the two sources)
C28_ArrivalOrder ==
    [][/\ \A s \in Sources :
            ReadStep(s)
                => LET new_entries == ReadFrom(log[s], last_position[s])
                   IN  /\ Len(an_errors') = Len(MessageEvents(new_entries))
                       /\ \A i \in 1..Len(an_errors') :
                              an_errors'[i].event = MessageEvents(new_entries)[i]
       /\ AnalysisWritten
            => /\ fix_queue'.error = Head(an_errors)
               /\ an_errors' = Tail(an_errors)]_vars

\* two records of one log are queued, the one appended first at the head
C28_Witness ==
    /\ an_pc = "analyze"
    /\ Len(an_errors) = 2
    /\ Len(log[an_source]) = 4
    /\ an_errors[1].event = log[an_source][1].event
    /\ an_errors[2].event = log[an_source][3].event
    /\ an_errors[1].event # an_errors[2].event

\* C33: an incident is handed to analyze_error once: when the analyzer loop
\* analyzes an error it read from an error log, the monitor has made no
\* analyze_error call of its own for the event of that error
C33_ClassifiedOnce ==
    [][(an_pc = "analyze" /\ an_errors' = Tail(an_errors))
        => mon_calls[Head(an_errors).event] = 0]_vars

(***************************************************************************)
(* A record that reaches the log in two writes, and the reads in between.  *)
(***************************************************************************)
\* records per log
MaxTailRecords == 2

\* the message of the record the monitor writes for an event of a source
\* (the snowflake events with an odd id are errors)
RecordMessage(source, id) ==
    IF source = "snowflake" THEN SnowflakeMessageOf(id)
    ELSE TextMessage("c1", "ns1", "p1")

\* the records begun in a log
Begun(file) == {i \in 1..Len(file) : file[i].msg.kind = "head"}

\* the writer is inside a record: its first part is the end of the file
InRecord(file) == file # <<>> /\ file[Len(file)].msg.kind = "head"

\* monitor.py:80-81, 144-145: f.write(error_message + '-' * 60 + "\n"), of which
\* the file has the first part of the message after the first write of the buffer
AppendBegins(source) ==
    /\ ~InRecord(log[source])
    /\ Cardinality(Begun(log[source])) < MaxTailRecords
    /\ LET id == 2 * Cardinality(Begun(log[source])) + 1
       IN  log' = [log EXCEPT ![source] =
                      Append(@, LogMessage(Fragment("head", RecordMessage(source, id)), id))]
    /\ UNCHANGED <<ovars, hvars, kvars, fvars, now, snowflake_conn, mon_pc, seen_event_ids,
                   recent_pods, last_position, an_pc, an_source, an_errors, fix_queue,
                   delivered, logged, mon_calls, skipped, rotated, returned, reread>>

\* the rest of the message and the delimiter line reach the file
AppendEnds(source) ==
    /\ InRecord(log[source])
    /\ LET head == log[source][Len(log[source])]
       IN  log' = [log EXCEPT ![source] =
                      @ \o <<LogMessage(Fragment("tail", head.msg.whole), head.event),
                             LogDelimiter(head.event)>>]
    /\ UNCHANGED <<ovars, hvars, kvars, fvars, now, snowflake_conn, mon_pc, seen_event_ids,
                   recent_pods, last_position, an_pc, an_source, an_errors, fix_queue,
                   delivered, logged, mon_calls, skipped, rotated, returned, reread>>

InitTail ==
    /\ K8sAtRest
    /\ PipelineAtRest(TRUE)
    /\ FixerAtRest
    /\ SlotAtRest("off")
    /\ OthersAtRest

NextTail ==
    \/ \E source \in Sources : AppendBegins(source)
    \/ \E source \in Sources : AppendEnds(source)
    \/ AnalyzerRead
    \/ AnalyzerAnalyze
    \/ AnalyzerSleep

SpecTail == InitTail /\ [][NextTail]_vars

\* C27: a read that ends inside a record hands no part of the record to
\* analyze_error: every error queued for the classifier, and the error of
\* the record in fix_queue.json, is the whole message of a record
C27_NoFragmentDelivered ==
    /\ \A i \in 1..Len(an_errors) : ~IsFragment(an_errors[i].msg)
    /\ ~IsFragment(fix_queue.error.msg)

(***************************************************************************)
(* One call of analyze_error for a snowflake error, on the text of a reply.*)
(***************************************************************************)
InitClassifier ==
    /\ K8sAtRest
    /\ PipelineAtRest(TRUE)
    /\ FixerAtRest
    /\ SlotAtRest("off")
    /\ seen_at = [i \in EventIds |-> NoTime]
    /\ WindowAtRest
    /\ SupervisorAtRest
    /\ FurtherAtRest
    /\ c_pc = "ready"
    /\ c_reply \in ReplyTexts
    /\ c_raised = FALSE
    /\ c_result = NoAnalysis

\* agent.py:165-193: the service called (the call may raise) and its reply
\* parsed
Classify ==
    /\ c_pc = "ready"
    /\ c_pc' = "done"
    /\ \E raised \in BOOLEAN :
        /\ c_raised' = raised
        /\ c_result' = AnalyzeSnowflake(IF raised
                                        THEN Reply("api_error", <<"timeout">>, Absent, <<>>)
                                        ELSE ReplyOf(c_reply))
    /\ UNCHANGED <<kvars, pvars, fvars, hvars, gvars, dvars, wvars, svars, c_reply>>

NextClassifier == Classify

SpecClassifier == InitClassifier /\ [][NextClassifier]_vars

\* the analysis that is JSON object n
ObjectAnalysis(n) == Analysis(ObjectRootCause(n), ObjectSteps(n), NoFile)

\* what analyze_error returns when it parses the whole reply
WholeParsed(text) == AnalyzeSnowflake(ReplyFor(JsonLoads(text), FALSE, text))

\* the JSON objects that are the content of a fenced block of the reply, with
\* or without the json tag on the opening fence
FencedObjects(text) ==
    {text[i + 1].n : i \in {k \in 1..(Len(text) - 2) :
                               /\ StartsFence(text[k])
                               /\ text[k + 1].t = "object"
                               /\ text[k + 2].t = "fence"}}

\* the reply parsed and returned
Classified == c_pc = "done" /\ ~c_raised

MaxExecutions == 3

AgentNames == {"monitor", "analyzer"}

ExecutionTimes == {1, 2}

ExecutionStatuses == {"success", "error"}

RECURSIVE Gcd(_, _)
Gcd(a, b) ==
    IF b = 0 THEN a ELSE Gcd(b, a % b)

\* the value of num / den, den > 0
Quotient(num, den) ==
    LET g == Gcd(num, den) IN <<num \div g, den \div g>>

\* metrics.py:32-37: the entry of an agent seen for the first time; it has no
\* success_count key
NewPerformance ==
    [total_executions |-> 0, average_execution_time |-> Quotient(0, 1),
     success_rate |-> Quotient(0, 1), success_count |-> NoCount]

\* metrics.py:52: perf.get("success_count", 0)
SuccessCount(perf) ==
    IF perf.success_count = NoCount THEN 0 ELSE perf.success_count

\* metrics.py:39-54: the entry after one more execution
Performance(perf, execution_time, status) ==
    LET total == perf.total_executions + 1
        current_avg == perf.average_execution_time
        average == Quotient(current_avg[1] * (total - 1) + execution_time * current_avg[2],
                            current_avg[2] * total)
        counted == [perf EXCEPT !.total_executions = total,
                                !.average_execution_time = average]
    IN  IF status = "success"
        THEN [counted EXCEPT !.success_count = SuccessCount(perf) + 1,
                             !.success_rate = Quotient(SuccessCount(perf) + 1, total)]
        ELSE counted

InitMetrics ==
    /\ K8sAtRest
    /\ PipelineAtRest(TRUE)
    /\ FixerAtRest
    /\ SlotAtRest("off")
    /\ OthersAtRest

\* metrics.py:29-54: record_agent_performance(agent_name, execution_time,
\* status)
RecordAgentPerformance ==
    \E agent_name \in AgentNames, execution_time \in ExecutionTimes,
       status \in ExecutionStatuses :
        LET known == agent_name \in DOMAIN agent_performance
            perf == IF known THEN agent_performance[agent_name] ELSE NewPerformance
            before == IF known THEN recorded[agent_name]
                      ELSE [calls |-> 0, successes |-> 0]
            after == [calls |-> before.calls + 1,
                      successes |-> before.successes
                                        + (IF status = "success" THEN 1 ELSE 0)]
            names == DOMAIN agent_performance \cup {agent_name}
        IN  /\ perf.total_executions < MaxExecutions
            /\ agent_performance' =
                    [a \in names |-> IF a = agent_name
                                     THEN Performance(perf, execution_time, status)
                                     ELSE agent_performance[a]]
            /\ recorded' = [a \in names |-> IF a = agent_name THEN after ELSE recorded[a]]
            /\ UNCHANGED <<kvars, pvars, fvars, hvars, dvars, wvars, cvars, svars, yvars,
                           incident_at, lvars, uvars, tvars>>

NextMetrics == RecordAgentPerformance

SpecMetrics == InitMetrics /\ [][NextMetrics]_vars

\* C40: for every agent with an entry, total_executions is the number of
\* record_agent_performance calls for it and success_rate is the number of
\* those calls with status "success" divided by total_executions
C40_RateIsSuccessShare ==
    \A a \in DOMAIN agent_performance :
        /\ agent_performance[a].total_executions = recorded[a].calls
        /\ agent_performance[a].success_rate
                = Quotient(recorded[a].successes, recorded[a].calls)

(***************************************************************************)
(* The supervisor: /start-system, the coordination loop, /stop-system.     *)
(***************************************************************************)
\* cycles of one coordination loop and threads started in a run
MaxCycles == 3

MaxStarts == 2

InitSupervisor ==
    /\ K8sAtRest
    /\ PipelineAtRest(TRUE)
    /\ FixerAtRest
    /\ SlotAtRest("off")
    /\ OthersAtRest

\* main.py:34-45: /start-system starts the thread of run_system unless one is
\* alive
StartRequest ==
    /\ sup_pc \in {"none", "ended"}
    /\ threads < MaxStarts
    /\ sup_pc' = "starting"
    /\ threads' = threads + 1
    /\ stop_pending' = FALSE
    /\ UNCHANGED <<kvars, pvars, fvars, hvars, gvars, dvars, wvars, cvars, running, cycle_count>>

\* supervisor.py:141-151: start_system, in the thread: self.running = True,
\* then _coordination_loop with cycle_count = 0
StartSystem ==
    /\ sup_pc = "starting"
    /\ running' = TRUE
    /\ cycle_count' = 0
    /\ sup_pc' = "test"
    /\ UNCHANGED <<kvars, pvars, fvars, hvars, gvars, dvars, wvars, cvars, threads, stop_pending>>

\* supervisor.py:153-156: while self.running: cycle_count += 1
LoopTest ==
    /\ sup_pc = "test"
    /\ IF running
       THEN /\ cycle_count < MaxCycles
            /\ cycle_count' = cycle_count + 1
            /\ sup_pc' = "tasks"
       ELSE /\ sup_pc' = "ended"
            /\ UNCHANGED cycle_count
    /\ UNCHANGED <<kvars, pvars, fvars, hvars, gvars, dvars, wvars, cvars, running, threads, stop_pending>>

\* supervisor.py:158-165 and 177-178: the three execute_task calls; an
\* exception (an agent removed from self.agents, say) goes to the handler
RunTasks ==
    /\ sup_pc = "tasks"
    /\ \E raised \in BOOLEAN : sup_pc' = IF raised THEN "backoff" ELSE "coordinate"
    /\ UNCHANGED <<kvars, pvars, fvars, hvars, gvars, dvars, wvars, cvars, running, cycle_count,
                   threads, stop_pending>>

\* supervisor.py:168, 181-211: _coordinate_agents, which catches what it raises
Coordinate ==
    /\ sup_pc = "coordinate"
    /\ sup_pc' = "sleep"
    /\ UNCHANGED <<kvars, pvars, fvars, hvars, gvars, dvars, wvars, cvars, running, cycle_count,
                   threads, stop_pending>>

\* supervisor.py:171 and 179: asyncio.sleep(10), or asyncio.sleep(5) in the
\* handler, then the test of the loop
Sleep ==
    /\ sup_pc \in {"sleep", "backoff"}
    /\ sup_pc' = "test"
    /\ UNCHANGED <<kvars, pvars, fvars, hvars, gvars, dvars, wvars, cvars, running, cycle_count,
                   threads, stop_pending>>

\* supervisor.py:213-216, called by /stop-system (main.py:47-51) in the
\* server's thread at any time
StopSystem ==
    /\ running' = FALSE
    /\ stop_pending' = TRUE
    /\ UNCHANGED <<kvars, pvars, fvars, hvars, gvars, dvars, wvars, cvars, sup_pc, cycle_count,
                   threads>>

NextSupervisor ==
    \/ StartRequest
    \/ StartSystem
    \/ LoopTest
    \/ RunTasks
    \/ Coordinate
    \/ Sleep
    \/ StopSystem

SpecSupervisor == InitSupervisor /\ [][NextSupervisor]_vars

(***************************************************************************)
(* The threads of run_system: every /start-system request may start one,   *)
(* all of them run the loop of the one SupervisorOrchestrator.             *)
(***************************************************************************)
InitThreads ==
    /\ K8sAtRest
    /\ PipelineAtRest(TRUE)
    /\ FixerAtRest
    /\ SlotAtRest("off")
    /\ OthersAtRest

\* a system thread alive whenever the supervisor's flag is set, whatever the
\* thread itself does
IsAliveWhileRunning(t) ==
    t # 0 /\ running

\* main.py:39: system_thread and system_thread.is_alive(): the thread was
\* started and run_system has not returned
IsAlive(t) ==
    t # 0 /\ thread_pc[t] \notin {"unstarted", "ended"}

\* the threads started so far
Started ==
    {t \in ThreadIds : thread_pc[t] # "unstarted"}

\* main.py:34-45: /start-system, one step of the server's event loop: answers
\* "System is already running" when the system thread is alive, else starts a
\* thread of run_system and makes it the system thread
ThreadStartRequest ==
    /\ IF IsAlive(system_thread)
       THEN UNCHANGED <<thread_pc, thread_cycles, system_thread>>
       ELSE LET t == Cardinality(Started) + 1 IN
            /\ t \in ThreadIds
            /\ thread_pc' = [thread_pc EXCEPT ![t] = "starting"]
            /\ system_thread' = t
            /\ UNCHANGED thread_cycles
    /\ start_returned' = TRUE
    /\ UNCHANGED <<kvars, pvars, fvars, hvars, dvars, wvars, cvars, svars, yvars,
                   incident_at, lvars, uvars, mvars>>

\* main.py:28-32 and supervisor.py:141-151: run_system in the thread:
\* start_system sets self.running = True and enters _coordination_loop with
\* cycle_count = 0
ThreadStartSystem(t) ==
    /\ thread_pc[t] = "starting"
    /\ running' = TRUE
    /\ thread_cycles' = [thread_cycles EXCEPT ![t] = 0]
    /\ thread_pc' = [thread_pc EXCEPT ![t] = "test"]
    /\ UNCHANGED <<kvars, pvars, fvars, hvars, dvars, wvars, cvars, yvars,
                   incident_at, lvars, uvars, mvars, sup_pc, cycle_count, threads,
                   stop_pending, system_thread, start_returned>>

\* supervisor.py:153-156: while self.running: cycle_count += 1; with the flag
\* down the loop, start_system and run_system return and the thread ends
ThreadLoopTest(t) ==
    /\ thread_pc[t] = "test"
    /\ IF running
       THEN /\ thread_cycles[t] < MaxCycles
            /\ thread_cycles' = [thread_cycles EXCEPT ![t] = @ + 1]
            /\ thread_pc' = [thread_pc EXCEPT ![t] = "cycle"]
       ELSE /\ thread_pc' = [thread_pc EXCEPT ![t] = "ended"]
            /\ UNCHANGED thread_cycles
    /\ UNCHANGED <<kvars, pvars, fvars, hvars, dvars, wvars, cvars, svars, yvars,
                   incident_at, lvars, uvars, mvars, system_thread, start_returned>>

\* supervisor.py:158-179: the three execute_task calls and _coordinate_agents;
\* what they raise is caught in the loop, and either way the thread sleeps
ThreadCycle(t) ==
    /\ thread_pc[t] = "cycle"
    /\ thread_pc' = [thread_pc EXCEPT ![t] = "sleep"]
    /\ UNCHANGED <<kvars, pvars, fvars, hvars, dvars, wvars, cvars, svars, yvars,
                   incident_at, lvars, uvars, mvars, thread_cycles, system_thread,
                   start_returned>>

\* supervisor.py:171 and 179: asyncio.sleep(10) or asyncio.sleep(5) ends, the
\* loop tests self.running again
ThreadSleep(t) ==
    /\ thread_pc[t] = "sleep"
    /\ thread_pc' = [thread_pc EXCEPT ![t] = "test"]
    /\ UNCHANGED <<kvars, pvars, fvars, hvars, dvars, wvars, cvars, svars, yvars,
                   incident_at, lvars, uvars, mvars, thread_cycles, system_thread,
                   start_returned>>

\* main.py:47-51 and supervisor.py:213-216: /stop-system: self.running = False
ThreadStopRequest ==
    /\ running' = FALSE
    /\ start_returned' = FALSE
    /\ UNCHANGED <<kvars, pvars, fvars, hvars, dvars, wvars, cvars, yvars,
                   incident_at, lvars, uvars, mvars, sup_pc, cycle_count, threads,
                   stop_pending, thread_pc, thread_cycles, system_thread>>

NextThreads ==
    \/ ThreadStartRequest
    \/ ThreadStopRequest
    \/ \E t \in ThreadIds :
        \/ ThreadStartSystem(t)
        \/ ThreadLoopTest(t)
        \/ ThreadCycle(t)
        \/ ThreadSleep(t)

SpecThreads == InitThreads /\ [][NextThreads]_vars

\* C38: at most one thread of run_system is alive at any time, so at most one
\* coordination loop runs, and a thread is started only when none of the
\* threads started before it is alive
C38_OneLoopThread ==
    /\ [](Cardinality({t \in ThreadIds : thread_pc[t] \notin {"unstarted", "ended"}}) <= 1)
    /\ [][\A t \in ThreadIds :
            (thread_pc[t] = "unstarted" /\ thread_pc'[t] = "starting")
                => \A u \in ThreadIds : thread_pc[u] \in {"unstarted", "ended"}]_vars

\* the first thread ended after a stop request, the second one is in a cycle
C38_Witness ==
    /\ thread_pc[1] = "ended"
    /\ thread_pc[2] = "cycle"
    /\ system_thread = 2

\* C39: after a /start-system request has returned and until the next
\* /stop-system request, the system thread is alive and its loop goes on: it
\* is about to set the flag, or the flag is up
C39_LoopRunsAfterStart ==
    start_returned
        => /\ system_thread # 0
           /\ thread_pc[system_thread] # "ended"
           /\ thread_pc[system_thread] = "starting" \/ running

\* C24: once stop_system has set the signal, the coordination loop sees it at
\* its next test and starts no cycle after that: from the test of the loop it
\* goes nowhere but to its end
C24_NoCycleAfterStop ==
    [][(stop_pending /\ sup_pc = "test" /\ sup_pc' # sup_pc)
        => (sup_pc' = "ended" /\ cycle_count' = cycle_count)]_vars

(***************************************************************************)
(* The monitor loop on OOM events of the same pods, with the time of the   *)
(* last incident of each pod on record.                                    *)
(***************************************************************************)
\* the status list of the audit event of an id: one OOMKilled container, two,
\* one after a container that ended otherwise, ...
OOMStatusesOf(id) ==
    CASE id % 3 = 1 -> <<OOMStatus("c1")>>
      [] id % 3 = 2 -> <<OOMStatus("c1"), OOMStatus("c2")>>
      [] OTHER -> <<[name |-> "c1", reason |-> "Error"], OOMStatus("c2")>>

\* the event of an id is the audit event of any of the pods
PodOOMEvents ==
    {Event(i, AuditEvent(ns, p, OOMStatusesOf(i), {})) :
        i \in EventIds, ns \in Namespaces, p \in PodNames}

\* the incidents of a pod among the pieces of kubernetes_errors.log
PodIncidents(file, k) ==
    {i \in 1..Len(file) :
        /\ ~file[i].delim
        /\ file[i].msg.kind = "text"
        /\ PodKey(file[i].msg.namespace, file[i].msg.pod) = k}

InitSuppress ==
    /\ K8sAtRest
    /\ PipelineAtRest(FALSE)
    /\ FixerAtRest
    /\ SlotAtRest("off")
    /\ OthersAtRest

\* the time of the poll recorded for the pods the poll wrote an incident for
StampIncidents ==
    incident_at' =
        [k \in PodKeys |->
            IF PodIncidents(log'["kubernetes"], k) # PodIncidents(log["kubernetes"], k)
            THEN now ELSE incident_at[k]]

\* MonitorAgent.run, second part: search_kubernetes_errors on a response
\* of OOM events (the clock stands between two ticks, so the events of a
\* longer response are those of several rounds at the same time)
PollPods ==
    /\ mon_pc = "kubernetes"
    /\ mon_pc' = "prune"
    /\ \E events \in SeqsUpTo(PodOOMEvents, MaxPipelineBatch), write_ok \in BOOLEAN :
            ScanDone("kubernetes",
                     ScanKubernetes(ScanStateOf("kubernetes"), events, write_ok, now))
    /\ StampIncidents
    /\ UNCHANGED <<hvars, kvars, fvars, now, snowflake_conn, last_position, an_pc,
                   an_source, an_errors, fix_queue, rotated, returned, reread,
                   dvars, wvars, cvars, svars, yvars, lvars, uvars, tvars, mvars>>

NextSuppress ==
    \/ Tick
    \/ MonitorPollSnowflake(MaxPipelineBatch)
    \/ PollPods
    \/ MonitorPrune

SpecSuppress == InitSuppress /\ [][NextSuppress]_vars

\* C34: a poll writes at most one incident for a pod, and none before 60
\* seconds have passed since the last incident of that pod, whatever the ids
\* and the status lists of its events; the prune at the end of a round keeps
\* every entry of recent_pods that is younger than 60 seconds
C34_PodSuppressed ==
    [][/\ \A k \in PodKeys :
            PodIncidents(log'["kubernetes"], k) # PodIncidents(log["kubernetes"], k)
            => /\ Cardinality(PodIncidents(log'["kubernetes"], k))
                    = Cardinality(PodIncidents(log["kubernetes"], k)) + 1
               /\ incident_at[k] = NoTime \/ now - incident_at[k] >= 60
       /\ (mon_pc = "prune" /\ mon_pc' # "prune")
            => \A k \in PodKeys :
                  (recent_pods[k] # NoTime /\ now - recent_pods[k] < 60)
                  => recent_pods'[k] = recent_pods[k]]_vars

\* a pod has two incidents, the second written 60 seconds or more after the
\* first, and an event of the pod with a new id and two OOMKilled containers
\* was skipped in between
C34_Witness ==
    \E k \in PodKeys :
        /\ Cardinality(PodIncidents(log["kubernetes"], k)) = 2
        /\ incident_at[k] >= 60
        /\ Cardinality(seen_event_ids) = 3

(***************************************************************************)
(* The log forwarder on one view: log_forwarder.py, log_forwarder_agent.py. *)
(***************************************************************************)
\* rows of the view
MaxRows == 3

\* the timestamps of the rows: 0 is the watermark the forwarder starts with
MaxStamp == 2

\* the LIMIT of the query (100 in the source)
FetchLimit == 2

\* sends of one row on record
MaxSent == 2

RowIds == 1..MaxRows

\* WHERE ts > %s AND ts IS NOT NULL
Pending(rows, watermark) == {r \in DOMAIN rows : rows[r] > watermark}

\* ORDER BY ts ASC LIMIT n: the results the database can give: the rows in
\* the order of their timestamps, rows of equal timestamp in any order, cut
\* after n rows
Fetches(rows, watermark, n) ==
    LET pending == Pending(rows, watermark)
        k == IF Cardinality(pending) < n THEN Cardinality(pending) ELSE n
    IN  {b \in [1..k -> pending] :
            /\ \A i, j \in 1..k : i < j => (b[i] # b[j] /\ rows[b[i]] <= rows[b[j]])
            /\ \A r \in pending :
                  (\A i \in 1..k : b[i] # r) => \A i \in 1..k : rows[b[i]] <= rows[r]}

\* What put_log_events does for the rows of a fetch, row by row: "sent";
\* "failed" (it raised and send_log_event logged it, log_forwarder.py:85-86);
\* "raised" (the retry inside the InvalidSequenceToken handler raised,
\* log_forwarder.py:82, and the exception left send_log_event)
SendOutcomes(k) == [1..k -> {"sent", "failed", "raised"}]

\* the index of the first send that left send_log_event by an exception
\* (0: none)
FirstRaised(outcomes) ==
    IF \E i \in DOMAIN outcomes : outcomes[i] = "raised"
    THEN CHOOSE i \in DOMAIN outcomes :
            /\ outcomes[i] = "raised"
            /\ \A j \in 1..(i - 1) : outcomes[j] # "raised"
    ELSE 0

\* the rows of the fetch that reached the log sink
Delivered(batch, outcomes) ==
    {batch[i] : i \in {j \in DOMAIN batch :
                         /\ outcomes[j] = "sent"
                         /\ FirstRaised(outcomes) = 0 \/ j < FirstRaised(outcomes)}}

InitForward ==
    /\ view_rows \in [RowIds -> 0..MaxStamp]
    /\ last_timestamp = 0
    /\ sent = [r \in RowIds |-> 0]
    /\ K8sAtRest
    /\ PipelineAtRest(TRUE)
    /\ FixerAtRest
    /\ SlotAtRest("off")
    /\ seen_at = [i \in EventIds |-> NoTime]
    /\ WindowAtRest
    /\ ClassifierAtRest
    /\ SupervisorAtRest
    /\ CycleAtRest
    /\ SuppressAtRest
    /\ ClusterAtRest
    /\ ThreadsAtRest
    /\ MetricsAtRest

\* fetch_and_forward_logs for the view (log_forwarder.py:88-124,
\* log_forwarder_agent.py:90-131): the rows above the watermark fetched, each
\* one sent, the watermark set to the timestamp of the last row; an exception
\* that leaves send_log_event is caught after the loop was left, so the
\* watermark stays
FetchAndForwardLogs ==
    /\ \E batch \in Fetches(view_rows, last_timestamp, FetchLimit) :
         \E outcomes \in SendOutcomes(Len(batch)) :
            /\ \A r \in Delivered(batch, outcomes) : sent[r] < MaxSent
            /\ sent' = [r \in RowIds |->
                            IF r \in Delivered(batch, outcomes)
                            THEN sent[r] + 1 ELSE sent[r]]
            /\ last_timestamp' =
                  IF batch = <<>> \/ FirstRaised(outcomes) # 0
                  THEN last_timestamp
                  ELSE view_rows[batch[Len(batch)]]
    /\ UNCHANGED <<kvars, pvars, fvars, hvars, dvars, wvars, cvars, svars, yvars,
                   incident_at, uvars, tvars, mvars, view_rows>>

NextForward == FetchAndForwardLogs

SpecForward == InitForward /\ [][NextForward]_vars

\* C35: no row is sent twice, and when the view holds no row above the
\* watermark any more, every row with a timestamp above the initial watermark
\* has been sent once
C35_ForwardedExactlyOnce ==
    /\ \A r \in RowIds : sent[r] <= 1
    /\ Pending(view_rows, last_timestamp) = {}
       => \A r \in RowIds : view_rows[r] > 0 => sent[r] = 1

(***************************************************************************)
(* The cluster log forwarder on one pod: cluster_logforwarder.py.          *)
(***************************************************************************)
\* lines a pod writes in a run
MaxLines == 3

LineIds == 1..MaxLines

\* a line of a pod log; blank: line.strip() is empty
Line(id, blank) == [id |-> id, blank |-> blank]

\* cluster_logforwarder.py:44: the lines send_logs puts into its batch
NonBlank(log_lines) == SelectSeq(log_lines, LAMBDA line : ~line.blank)

\* cluster_logforwarder.py:86-92: stdout of kubectl logs, split in lines; the
\* return code is not looked at, and stdout is empty when kubectl failed
GetPodLogs(kubectl_ok) == IF kubectl_ok THEN pod_log ELSE <<>>

\* cluster_logforwarder.py:116-118
NewLogs(log_lines, prev_line_count) ==
    IF Len(log_lines) > prev_line_count
    THEN SubSeq(log_lines, prev_line_count + 1, Len(log_lines))
    ELSE <<>>

InitCluster ==
    /\ pod_log = <<>>
    /\ lines_written = 0
    /\ last_seen_logs = NoCount
    /\ lines_sent = [id \in LineIds |-> 0]
    /\ K8sAtRest
    /\ PipelineAtRest(TRUE)
    /\ FixerAtRest
    /\ SlotAtRest("off")
    /\ seen_at = [i \in EventIds |-> NoTime]
    /\ WindowAtRest
    /\ ClassifierAtRest
    /\ SupervisorAtRest
    /\ CycleAtRest
    /\ SuppressAtRest
    /\ ForwardAtRest
    /\ ThreadsAtRest
    /\ MetricsAtRest

\* the pod writes a line
PodWrites ==
    /\ lines_written < MaxLines
    /\ lines_written' = lines_written + 1
    /\ \E blank \in BOOLEAN :
          pod_log' = Append(pod_log, Line(lines_written + 1, blank))
    /\ UNCHANGED <<kvars, pvars, fvars, hvars, dvars, wvars, cvars, svars, yvars,
                   incident_at, lvars, tvars, mvars, last_seen_logs, lines_sent>>

\* the container of the pod restarts: its log starts empty
PodRestarts ==
    /\ pod_log # <<>>
    /\ pod_log' = <<>>
    /\ UNCHANGED <<kvars, pvars, fvars, hvars, dvars, wvars, cvars, svars, yvars,
                   incident_at, lvars, tvars, mvars, lines_written, last_seen_logs, lines_sent>>

\* cluster_logforwarder.py:103-123: one round of main for the pod; send_ok:
\* put_log_events took the batch (a failure is logged, lines 73-74)
ForwardPodLogs ==
    /\ \E kubectl_ok \in BOOLEAN, send_ok \in BOOLEAN :
          LET log_lines == GetPodLogs(kubectl_ok)
              new_logs == IF last_seen_logs = NoCount THEN <<>>
                          ELSE NewLogs(log_lines, last_seen_logs)
              events == NonBlank(new_logs)
              batch == {events[i].id : i \in 1..Len(events)}
          IN  /\ last_seen_logs' = Len(log_lines)
              /\ \A id \in batch : send_ok => lines_sent[id] < MaxSent
              /\ lines_sent' = [id \in LineIds |->
                                   IF send_ok /\ id \in batch
                                   THEN lines_sent[id] + 1 ELSE lines_sent[id]]
    /\ UNCHANGED <<kvars, pvars, fvars, hvars, dvars, wvars, cvars, svars, yvars,
                   incident_at, lvars, tvars, mvars, pod_log, lines_written>>

NextCluster == PodWrites \/ PodRestarts \/ ForwardPodLogs

SpecCluster == InitCluster /\ [][NextCluster]_vars

\* C36: no line is sent twice; the first observation of the pod sends
\* nothing; a later poll that finds the log longer than the recorded count
\* sends every line beyond the count; a poll that finds it shorter sends
\* nothing
C36_LinesSentOnce ==
    [][/\ \A id \in LineIds : lines_sent'[id] <= 1
       /\ last_seen_logs = NoCount => lines_sent' = lines_sent
       /\ (/\ last_seen_logs # NoCount
           /\ pod_log' = pod_log
           /\ last_seen_logs' = Len(pod_log)
           /\ last_seen_logs' > last_seen_logs)
          => \A i \in (last_seen_logs + 1)..Len(pod_log) :
                lines_sent'[pod_log[i].id] = lines_sent[pod_log[i].id] + 1
       /\ last_seen_logs' < last_seen_logs => lines_sent' = lines_sent]_vars

(***************************************************************************)
(* One thread in the coordination loop, with the files of its agents:      *)
(* supervisor.py, monitor_agent.py, analyzer_agent.py.                     *)
(***************************************************************************)
\* a cycle that calls the analyzer before the monitor
TaskOrderAnalyzerBeforeMonitor == <<"LogForwarder", "Analyzer", "Monitor">>

\* supervisor.py:158-165: the agents in the order their execute_task is called
TaskOrder == <<"LogForwarder", "Monitor", "Analyzer">>

\* monitor_agent.py:129: f"Error in {error['log_group']}:\n{error['message']}\n"
ErrorInGroup(msg) == [msg EXCEPT !.contains = @ \cup {"Error in"}]

\* a piece of snowflake_errors.log: a message or the delimiter line, with the
\* cycle it was written in (0: before this run of the process)
CyclePiece(delim, msg, event, cycle) ==
    [delim |-> delim, msg |-> msg, event |-> event, cycle |-> cycle]

\* monitor_agent.py:128-129: one f.write per error, the delimiter at its end
CycleRecord(error, cycle) ==
    <<CyclePiece(FALSE, ErrorInGroup(error.msg), error.id, cycle),
      CyclePiece(TRUE, PlainMessage, error.id, cycle)>>

\* a record that an earlier run of the process left in the file
OldRecord == CycleRecord(Event(0, SnowflakeMessageOf(1)), 0)

\* monitor_agent.py:97-118: the events of the responses walked with
\* seen_event_ids; errors collects the new events that are errors
RECURSIVE SearchErrors(_, _, _)
SearchErrors(seen, events, errors) ==
    IF events = <<>> THEN [seen |-> seen, errors |-> errors]
    ELSE LET event == Head(events)
         IN  IF event.id \in seen
             THEN SearchErrors(seen, Tail(events), errors)
             ELSE SearchErrors(seen \cup {event.id}, Tail(events),
                               IF IsSnowflakeError(event.msg)
                               THEN Append(errors, event)
                               ELSE errors)

\* monitor_agent.py:126-130: the records of the errors, in their order
RECURSIVE WriteErrors(_, _)
WriteErrors(errors, cycle) ==
    IF errors = <<>> THEN <<>>
    ELSE CycleRecord(Head(errors), cycle) \o WriteErrors(Tail(errors), cycle)

\* the cycle in which the first piece of an error was written
WrittenIn(new_entries, event) ==
    LET i == CHOOSE i \in 1..Len(new_entries) :
                /\ new_entries[i].event = event
                /\ \A j \in 1..(i - 1) : new_entries[j].event # event
    IN  new_entries[i].cycle

\* one call of _analyze_error (analyzer_agent.py:60): the error, the cycle
\* its record was written in and the cycle of the call
Analyzed(error, written, analyzed) ==
    [event |-> error.event, msg |-> error.msg, written |-> written,
     analyzed |-> analyzed]

InitCycle ==
    /\ y_pc = "test"
    /\ y_cycle = 0
    /\ y_ran = <<>>
    /\ y_seen = {}
    /\ y_log \in {<<>>, OldRecord}
    /\ y_position = 0
    /\ y_analyzed = <<>>
    /\ K8sAtRest
    /\ PipelineAtRest(TRUE)
    /\ FixerAtRest
    /\ SlotAtRest("off")
    /\ seen_at = [i \in EventIds |-> NoTime]
    /\ WindowAtRest
    /\ ClassifierAtRest
    /\ SupervisorAtRest
    /\ SuppressAtRest
    /\ ForwardAtRest
    /\ ClusterAtRest
    /\ ThreadsAtRest
    /\ MetricsAtRest

\* the agent whose execute_task is called next in this cycle
NextAgent == TaskOrder[Len(y_ran) + 1]

\* what every task does at its end: the call returns, the next statement of
\* the loop follows
TaskReturns(agent) ==
    /\ y_ran' = Append(y_ran, agent)
    /\ y_pc' = IF Len(y_ran) + 1 = Len(TaskOrder) THEN "coordinate" ELSE "tasks"

\* supervisor.py:153-156: while self.running: cycle_count += 1
CycleBegins ==
    /\ y_pc = "test"
    /\ y_cycle < MaxCycles
    /\ y_cycle' = y_cycle + 1
    /\ y_ran' = <<>>
    /\ y_pc' = "tasks"
    /\ UNCHANGED <<kvars, pvars, fvars, hvars, dvars, wvars, cvars, svars, incident_at, lvars, uvars,
                   tvars, mvars, y_seen, y_log, y_position, y_analyzed>>

\* supervisor.py:159 and log_forwarder_agent.py:64-88: the forwarder's task,
\* which leaves the error log alone
ForwarderTask ==
    /\ y_pc = "tasks"
    /\ NextAgent = "LogForwarder"
    /\ TaskReturns("LogForwarder")
    /\ UNCHANGED <<kvars, pvars, fvars, hvars, dvars, wvars, cvars, svars, incident_at, lvars, uvars,
                   tvars, mvars, y_cycle, y_seen, y_log, y_position, y_analyzed>>

\* supervisor.py:162 and monitor_agent.py:32-67: the monitor's task on the
\* events of its responses; the errors found are appended to the log and the
\* file is closed (a failure of the write is caught and logged)
MonitorTask ==
    /\ y_pc = "tasks"
    /\ NextAgent = "Monitor"
    /\ \E events \in SeqsUpTo(SnowflakeEvents, MaxBatch), write_ok \in BOOLEAN :
            LET found == SearchErrors(y_seen, events, <<>>)
            IN  /\ y_seen' = found.seen
                /\ y_log' = IF write_ok
                            THEN y_log \o WriteErrors(found.errors, y_cycle)
                            ELSE y_log
    /\ TaskReturns("Monitor")
    /\ UNCHANGED <<kvars, pvars, fvars, hvars, dvars, wvars, cvars, svars, incident_at, lvars, uvars,
                   tvars, mvars, y_cycle, y_position, y_analyzed>>

\* supervisor.py:165 and analyzer_agent.py:44-96: the analyzer's task: the
\* log read from the stored offset to its end, every piece of the split
\* handed to _analyze_error, which returns a text whatever happens
AnalyzerTask ==
    /\ y_pc = "tasks"
    /\ NextAgent = "Analyzer"
    /\ LET new_entries == ReadFrom(y_log, y_position)
           errors == SplitErrors(new_entries, <<>>)
       IN  /\ y_position' = Tell(y_log, y_position)
           /\ y_analyzed' =
                 y_analyzed
                 \o [i \in 1..Len(errors) |->
                        Analyzed(errors[i], WrittenIn(new_entries, errors[i].event),
                                 y_cycle)]
    /\ TaskReturns("Analyzer")
    /\ UNCHANGED <<kvars, pvars, fvars, hvars, dvars, wvars, cvars, svars, incident_at, lvars, uvars,
                   tvars, mvars, y_cycle, y_seen, y_log>>

\* supervisor.py:168: _coordinate_agents
CycleCoordinate ==
    /\ y_pc = "coordinate"
    /\ y_pc' = "sleep"
    /\ UNCHANGED <<kvars, pvars, fvars, hvars, dvars, wvars, cvars, svars, incident_at, lvars, uvars,
                   tvars, mvars, y_cycle, y_ran, y_seen, y_log, y_position, y_analyzed>>

\* supervisor.py:171: asyncio.sleep(10), then the test of the loop
CycleSleep ==
    /\ y_pc = "sleep"
    /\ y_pc' = "test"
    /\ UNCHANGED <<kvars, pvars, fvars, hvars, dvars, wvars, cvars, svars, incident_at, lvars, uvars,
                   tvars, mvars, y_cycle, y_ran, y_seen, y_log, y_position, y_analyzed>>

NextCycle ==
    \/ CycleBegins
    \/ ForwarderTask
    \/ MonitorTask
    \/ AnalyzerTask
    \/ CycleCoordinate
    \/ CycleSleep

SpecCycle == InitCycle /\ [][NextCycle]_vars

\* the error of a piece was handed to _analyze_error in the given cycle
AnalyzedIn(piece, cycle) ==
    \E i \in 1..Len(y_analyzed) :
        /\ y_analyzed[i].event = piece.event
        /\ y_analyzed[i].msg = piece.msg
        /\ y_analyzed[i].written = piece.cycle
        /\ y_analyzed[i].analyzed = cycle

PollSeconds == 10

\* the clock runs up to MaxClock and the source holds up to MaxHeld events
MaxClock == 25

MaxHeld == 2

InitWindow ==
    /\ K8sAtRest
    /\ PipelineAtRest(TRUE)
    /\ FixerAtRest
    /\ SlotAtRest("off")
    /\ seen_at = [i \in EventIds |-> NoTime]
    /\ WindowAtRest
    /\ ClassifierAtRest
    /\ SupervisorAtRest
    /\ FurtherAtRest

\* a second passes; the loop wakes up for its poll when the sleep is over
WindowTick ==
    /\ clock < MaxClock
    /\ clock < next_poll
    /\ clock' = clock + 1
    /\ UNCHANGED <<kvars, pvars, fvars, hvars, gvars, dvars, cvars, svars, next_poll, held, in_window>>

\* an event reaches the telemetry source, with the time of its arrival as its
\* timestamp
EventArrives ==
    /\ Cardinality(held) < MaxHeld
    /\ clock \notin held
    /\ held' = held \cup {clock}
    /\ UNCHANGED <<kvars, pvars, fvars, hvars, gvars, dvars, cvars, svars, clock, next_poll, in_window>>

\* monitor.py:56-65 and 94-104: filter_log_events with startTime = now - 5 s
\* and endTime = now returns the events with a timestamp in between; then the
\* sleep (monitor.py:182)
WindowPoll ==
    /\ clock = next_poll
    /\ in_window' = in_window \cup {t \in held : clock - WindowSeconds <= t /\ t <= clock}
    /\ next_poll' = clock + PollSeconds
    /\ UNCHANGED <<kvars, pvars, fvars, hvars, gvars, dvars, cvars, svars, clock, held>>

NextWindow ==
    \/ WindowTick
    \/ EventArrives
    \/ WindowPoll

SpecWindow == InitWindow /\ [][NextWindow]_vars

\* C26: every event the telemetry source holds is inside the window of a
\* poll, the window being at least twice the poll interval: by the time a poll
\* interval has passed since the event arrived, a poll has returned it
C26_NoEventMissed ==
    \A t \in held :
        clock > t + PollSeconds
            => /\ WindowSeconds >= 2 * PollSeconds
               /\ t \in in_window

(***************************************************************************)
(* The fixer: receive_error and the feedback to the analyzer.              *)
(***************************************************************************)
InitFixer ==
    /\ K8sAtRest
    /\ PipelineAtRest(TRUE)
    /\ SlotAtRest("off")
    /\ OthersAtRest
    /\ f_pc = "ready"
    /\ analyzer_agent \in BOOLEAN
    /\ f_error \in WarehouseErrorMessages
    /\ f_analysis \in FixerAnalyses
    /\ f_feedback = ""
    /\ executed = <<>>
    /\ verify_query = <<>>
    /\ remediation_log = <<>>
    /\ attempts = 0
    /\ f_commands = <<>>
    /\ failed_at = 0
    /\ verification = "not run"

\* where receive_error ends after an attempt that failed with message
AfterFailure(message) ==
    IF analyzer_agent
    THEN f_pc' = "feedback" /\ f_feedback' = message
    ELSE f_pc' = "done" /\ UNCHANGED f_feedback

\* a status that takes an executed fix for a verified one
StatusFixedOnSuccess(sql_commands, success, verified) ==
    IF sql_commands = <<>> THEN "Failed (No SQL commands generated)"
    ELSE IF ~success THEN "Failed Remediation"
    ELSE "Fixed"

\* a status for a failed execution that is none of the four of receive_error
StatusPartialFailure(sql_commands, success, verified) ==
    IF sql_commands = <<>> THEN "Failed (No SQL commands generated)"
    ELSE IF ~success THEN "PartialFailure"
    ELSE IF verified THEN "Fixed"
    ELSE "Failed Verification"

\* fixer.py:126-140, 153-159: the status receive_error writes
Status(sql_commands, success, verified) ==
    IF sql_commands = <<>> THEN "Failed (No SQL commands generated)"
    ELSE IF ~success THEN "Failed Remediation"
    ELSE IF verified THEN "Fixed"
    ELSE "Failed Verification"

\* the warehouses to tell apart in a step: all of dbs when the step asks the
\* warehouse, one of them when it does not
WarehousesAsked(dbs, asked) ==
    IF asked THEN dbs ELSE {Warehouse(TRUE, 0, "Exception")}

\* the call of cursor.execute that raises when db runs sql_commands (0: none)
FailedAt(sql_commands, db) ==
    IF db.cursor_ok /\ db.fail_at <= Len(sql_commands) THEN db.fail_at ELSE 0

\* FixerAgent.receive_error: the SQL generated, executed and verified, the
\* outcome appended to remediation.log (a failing write raises), the failure
\* fed back to the analyzer; limit is the number of calls followed
ReceiveError(limit) ==
    /\ f_pc = "ready"
    /\ attempts < limit
    /\ attempts' = attempts + 1
    /\ \E reply \in SqlReplies, write_ok \in BOOLEAN :
       \E db \in WarehousesAsked(Warehouses, GenerateSqlFix(reply) # <<>>) :
       \E vdb \in WarehousesAsked(VerifyWarehouses,
                                  /\ GenerateSqlFix(reply) # <<>>
                                  /\ ExecuteFix(GenerateSqlFix(reply), db).success) :
        LET sql_commands == GenerateSqlFix(reply)
            fix == ExecuteFix(sql_commands, db)
            ver == VerifyFix(f_error, vdb)
            status == Status(sql_commands, fix.success, ver.verified)
            verify_ran == sql_commands # <<>> /\ fix.success
        IN  /\ f_commands' = sql_commands
            /\ failed_at' = FailedAt(sql_commands, db)
            /\ executed' = IF sql_commands = <<>> THEN <<>> ELSE fix.passed
            /\ verify_query' = IF verify_ran THEN ver.query ELSE <<>>
            /\ verification' = IF ~verify_ran THEN "not run"
                                ELSE IF vdb.cursor_ok /\ vdb.fail_at = 0 THEN "passed"
                                ELSE "raised"
            /\ IF ~write_ok
               THEN /\ f_pc' = "raised"
                    /\ UNCHANGED <<remediation_log, f_feedback>>
               ELSE /\ remediation_log' = Append(remediation_log, status)
                    /\ CASE status = "Failed Remediation" -> AfterFailure(fix.message)
                         [] status = "Failed Verification" -> AfterFailure(ver.message)
                         [] OTHER -> f_pc' = "done" /\ UNCHANGED f_feedback
    /\ UNCHANGED <<ovars, hvars, kvars, pvars, analyzer_agent, f_error, f_analysis>>

\* analyzer_agent.receive_feedback(error_message, message), called at
\* fixer.py:151 and 163; the source files hold no definition of it, so it is
\* modelled from section 4.7 of the specification: the error is analyzed
\* again with the failure as feedback and the new analysis is handed to
\* receive_error
ReceiveFeedback ==
    /\ f_pc = "feedback"
    /\ f_pc' = "ready"
    /\ f_analysis' \in FixerAnalyses
    /\ UNCHANGED <<ovars, hvars, kvars, pvars, analyzer_agent, f_error, f_feedback, executed,
                   verify_query, remediation_log, attempts, f_commands,
                   failed_at, verification>>

NextFixer == ReceiveError(MaxAttempts) \/ ReceiveFeedback

SpecFixer == InitFixer /\ [][NextFixer]_vars

\* one call of receive_error
FirstAttempt == 1

\* The first call of receive_error for an incident, with the feedback of its
\* failure: the commands of one attempt, their execution and verification
NextAttempt == ReceiveError(FirstAttempt) \/ ReceiveFeedback

SpecAttempt == InitFixer /\ [][NextAttempt]_vars

(***************************************************************************)
(* Claims about the fixer (SpecFixer).                                     *)
(***************************************************************************)
\* the allowlist of the claim: one GRANT statement, scoped ON TABLE ... TO
\* ROLE ..., with its terminator at the end and nowhere else
MatchesGrantAllowlist(cmd) ==
    /\ Len(cmd) >= 2
    /\ cmd[1] = "GRANT"
    /\ cmd[Len(cmd)] = ";"
    /\ \A i \in 1..(Len(cmd) - 1) : cmd[i] # ";"
    /\ \E i \in 2..(Len(cmd) - 1) :
          /\ cmd[i] = "ON" /\ cmd[i + 1] = "TABLE"
          /\ \E j \in (i + 2)..(Len(cmd) - 1) : cmd[j] = "TO" /\ cmd[j + 1] = "ROLE"

\* C1: every command that execute_fix hands to cursor.execute matches the
\* GRANT allowlist
C1_OnlyAllowlistedExecuted ==
    \A i \in 1..Len(executed) : MatchesGrantAllowlist(executed[i])

\* C2: the feedback loop ends within the maximum of retries: receive_error
\* runs for an incident once and at most MaxRetries times more
C2_BoundedRetries == attempts <= 1 + MaxRetries

\* the last receive_error wrote its status to remediation.log
Recorded == attempts > 0 /\ f_pc # "raised"

\* the status written last to remediation.log
LastStatus ==
    IF remediation_log = <<>> THEN "" ELSE remediation_log[Len(remediation_log)]

\* C12: an attempt whose first command succeeded and whose later command
\* failed is recorded as PartialFailure, and the commands are not run again
\* for the incident
C12_PartialFailureRecorded ==
    (Recorded /\ failed_at >= 2)
        => /\ LastStatus = "PartialFailure"
           /\ f_pc = "done"

\* C13: execute_fix hands the commands to the warehouse one by one in the
\* order of the list; the first command that fails ends the attempt: no
\* command after it reaches cursor.execute, nothing is verified and the
\* status written is a failure
C13_FirstFailureAborts ==
    /\ \E k \in 0..Len(f_commands) : executed = SubSeq(f_commands, 1, k)
    /\ failed_at > 0
          => /\ executed = SubSeq(f_commands, 1, failed_at)
             /\ verification = "not run"
             /\ Recorded => LastStatus = "Failed Remediation"

\* the first of two commands failed
C13_Witness ==
    /\ Recorded
    /\ Len(f_commands) = 2
    /\ failed_at = 1

\* C14: after an attempt that failed in execution or in verification the
\* analyzer is called again for the incident with the failure message of
\* that attempt as feedback
C14_FailureFeedsBack ==
    (Recorded /\ LastStatus \in {"Failed Remediation", "Failed Verification"})
        => /\ f_pc \in {"feedback", "ready"}
           /\ f_feedback # ""

\* C15: the status Fixed is written only for an attempt all of whose
\* commands were executed without failure and whose verification query then
\* passed; an attempt whose execution failed is not verified and not
\* recorded as Fixed
C15_FixedOnlyAfterVerified ==
    /\ (Recorded /\ LastStatus = "Fixed")
          => /\ f_commands # <<>>
             /\ executed = f_commands
             /\ failed_at = 0
             /\ verification = "passed"
             /\ verify_query # <<>>
    /\ (failed_at > 0 \/ executed # f_commands)
          => /\ verification = "not run"
             /\ verify_query = <<>>
             /\ Recorded => LastStatus # "Fixed"

\* two commands executed, the fix verified and recorded as Fixed
C15_Witness ==
    /\ Recorded
    /\ LastStatus = "Fixed"
    /\ Len(f_commands) = 2

ReceiveErrorStep == attempts' = attempts + 1

\* the record the call appended has one of the four statuses, and Fixed if
\* and only if every command was executed and the verification passed
OutcomeRecorded ==
    /\ Len(remediation_log') = Len(remediation_log) + 1
    /\ SubSeq(remediation_log', 1, Len(remediation_log)) = remediation_log
    /\ remediation_log'[Len(remediation_log')]
          \in {"Failed (No SQL commands generated)", "Fixed",
               "Failed Verification", "Failed Remediation"}
    /\ remediation_log'[Len(remediation_log')] = "Fixed"
          <=> /\ f_commands' # <<>>
              /\ executed' = f_commands'
              /\ failed_at' = 0
              /\ verification' = "passed"

InitSlot ==
    /\ K8sAtRest
    /\ PipelineAtRest(TRUE)
    /\ FixerAtRest
    /\ SlotAtRest("idle")
    /\ OthersAtRest

\* an open that keeps what the file holds (mode 'a')
OpenForAppend(content) == content

\* open("fix_queue.json", 'w'): the file is truncated
OpenForWrite(content) == FileContent("empty", 0)

\* agent.py:245, 268: the next analysis is complete and the file is opened,
\* whatever it holds and whatever the executor has read
WriterOpen ==
    /\ w_pc = "idle"
    /\ w_rec < MaxRecords
    /\ w_pc' = "opened"
    /\ w_rec' = w_rec + 1
    /\ fq_file' = OpenForWrite(fq_file)
    /\ lost' = IF fq_file.written = "whole" /\ fq_file.rec \notin consumed
               THEN lost \cup {fq_file.rec} ELSE lost
    /\ UNCHANGED <<ovars, kvars, pvars, fvars, x_pc, x_read, x_rec, in_flight, consumed>>

\* agent.py:246, 269: json.dump writes the text in pieces; the buffer of the
\* file object is flushed when it is full, before the text is complete
WriterFlush ==
    /\ w_pc = "opened"
    /\ w_pc' = "dumping"
    /\ fq_file' = FileContent("partial", w_rec)
    /\ UNCHANGED <<ovars, kvars, pvars, fvars, w_rec, x_pc, x_read, x_rec, in_flight,
                   consumed, lost>>

\* the end of the with block: the rest of the text is written and the file
\* closed
WriterClose ==
    /\ w_pc \in {"opened", "dumping"}
    /\ w_pc' = "idle"
    /\ fq_file' = FileContent("whole", w_rec)
    /\ UNCHANGED <<ovars, kvars, pvars, fvars, w_rec, x_pc, x_read, x_rec, in_flight,
                   consumed, lost>>

\* an executor that starts attempts while one is under way
ExecutorAlwaysFree(pc) == TRUE

\* the executor takes a record when no attempt is under way: receive_error
\* returns before the next record is read
ExecutorFree(pc) == pc = "idle"

\* the executor reads fix_queue.json and, given a whole record, starts the
\* attempt for it; nothing removes the record from the file
ExecutorRead ==
    /\ ExecutorFree(x_pc)
    /\ x_read' = fq_file
    /\ IF fq_file.written = "whole"
       THEN /\ x_pc' = "attempt"
            /\ x_rec' = fq_file.rec
            /\ in_flight' = [in_flight EXCEPT ![fq_file.rec] = @ + 1]
            /\ consumed' = consumed \cup {fq_file.rec}
       ELSE UNCHANGED <<x_pc, x_rec, in_flight, consumed>>
    /\ UNCHANGED <<ovars, kvars, pvars, fvars, w_pc, w_rec, fq_file, lost>>

\* receive_error returns
ExecutorDone ==
    /\ x_pc = "attempt"
    /\ x_pc' = "idle"
    /\ in_flight' = [in_flight EXCEPT ![x_rec] = @ - 1]
    /\ UNCHANGED <<ovars, kvars, pvars, fvars, w_pc, w_rec, fq_file, x_read, x_rec,
                   consumed, lost>>

NextSlot ==
    \/ WriterOpen
    \/ WriterFlush
    \/ WriterClose
    \/ ExecutorRead
    \/ ExecutorDone

SpecSlot == InitSlot /\ [][NextSlot]_vars

(***************************************************************************)
(* Claims about the hand-off (SpecSlot).                                   *)
(***************************************************************************)
\* C18: an analysis written to fix_queue.json can be overwritten by a later
\* one before the executor read it; such an analysis is then in no file and
\* in no state of the executor: it is never taken, no attempt is made for it
C18_LostNeverExecuted ==
    \A rec \in lost :
        /\ fq_file.rec # rec
        /\ rec \notin consumed
        /\ x_rec # rec
        /\ in_flight[rec] = 0

\* the executor is at work on the first analysis, the second was written and
\* overwritten by the third
C18_Witness ==
    /\ x_pc = "attempt"
    /\ x_rec = 1
    /\ 2 \in lost
    /\ fq_file = FileContent("whole", 3)

\* C19: what a read of fix_queue.json returns is the whole record of some
\* write, never an empty or partly written file
C19_ReadsWholeRecords ==
    x_read.written \in {"none", "whole"}

====
